---- MODULE Spec2Model ----
(***************************************************************************)
(* A model of minecraft-regions-tool: the region (container) file scanner  *)
(* and repairer of src/region_file.rs, the statistics of src/scan.rs, the  *)
(* NBT decoder of src/nbt.rs and the per-world merge of                    *)
(* src/world_folder.rs.                                                    *)
(*                                                                         *)
(* A region file is a sequence of 4096-byte sectors.  Sector 0 holds the   *)
(* location table, sector 1 the timestamp table, the others chunk records. *)
(* A sector is modelled by a record: `id` names the bytes it held when the *)
(* file was opened (so a copy of a sector is recognisable wherever it      *)
(* lands), `len` and `tag` are the first five bytes read as a chunk        *)
(* header, `pl` and `x` say how the payload behind that header decodes,    *)
(* `tbl` is the byte content of a location table, and `fixed` says that    *)
(* the fifth byte of the sector was rewritten as a compression type.       *)
(***************************************************************************)
EXTENDS Integers, Sequences, FiniteSets, TLC

\* ------------------------------------------------------------------------
\* Program constants
\* ------------------------------------------------------------------------

BLOCK_SIZE == 4096

MAX_RECURSION == 100

\* The length from which scan_chunk reports invalid-length whatever the
\* sector count is.
UnreasonableLength == 1048576

\* ------------------------------------------------------------------------
\* Bounds of the model
\* ------------------------------------------------------------------------

\* Sectors of the file under scan: 0, 1 and the data sectors 2..FileSectors-1.
FileSectors == 6

\* I/O faults injected into one scan.
MaxFaults == 1

\* The cells of the location table that the model lets be non-empty (the
\* table of the program has 1024; all others are (0,0) and never visited).
Slots == {0, 1}

\* Sector counts a table entry declares.
Counts == {1, 2}

\* ------------------------------------------------------------------------
\* Integer helpers
\* ------------------------------------------------------------------------

Min(a, b) == IF a < b THEN a ELSE b

Max(a, b) == IF a > b THEN a ELSE b

\* `f as u8` of a non-negative float: the cast saturates.
AsU8Saturating(v) == IF v > 255 THEN 255 ELSE IF v < 0 THEN 0 ELSE v

\* The mathematical ceiling of n / d for n >= 0, d > 0.
CeilDiv(n, d) == (n + d - 1) \div d

\* ------------------------------------------------------------------------
\* Locations: the location table (src/region_file.rs)
\* ------------------------------------------------------------------------

\* An entry of Locations.inner is <<offset, sections>>; inner is 1-based
\* here, so the entry of table index i is inner[i + 1].

\* BigEndian::read_u32 of four bytes.
ReadU32BE(b0, b1, b2, b3) == b0 * 16777216 + b1 * 65536 + b2 * 256 + b3

\* BigEndian::write_u32: the four bytes of a u32, most significant first.
WriteU32BE(v) ==
    << (v \div 16777216) % 256, (v \div 65536) % 256, (v \div 256) % 256, v % 256 >>

\* Locations::from_bytes: every four bytes give one entry, a 3-byte
\* big-endian offset (read behind a zero byte) and a 1-byte count.
from_bytes(bytes) ==
    [ k \in 1 .. (Len(bytes) \div 4) |->
        << ReadU32BE(0, bytes[4 * k - 3], bytes[4 * k - 2], bytes[4 * k - 1]),
           bytes[4 * k] >> ]

\* A variant of EntryBytes that writes the offset least significant byte
\* first.
EntryBytesLittleEndian(e) ==
    << WriteU32BE(e[1])[4], WriteU32BE(e[1])[3], WriteU32BE(e[1])[2], e[2] >>

\* What to_bytes appends for one entry: bytes 1..3 of the big-endian u32
\* offset (its most significant byte is dropped), then the count.
EntryBytes(e) ==
    << WriteU32BE(e[1])[2], WriteU32BE(e[1])[3], WriteU32BE(e[1])[4], e[2] >>

\* Locations::to_bytes.
to_bytes(inner) ==
    [ j \in 1 .. (4 * Len(inner)) |-> EntryBytes(inner[(j + 3) \div 4])[((j - 1) % 4) + 1] ]

\* Locations::valid_entries_enumerate: <<index, offset, sections>> of the
\* entries with offset >= 2, in table order.
valid_entries_enumerate(inner) ==
    LET F[k \in 0 .. Len(inner)] ==
            IF k = 0 THEN << >>
            ELSE IF inner[k][1] >= 2
                 THEN Append(F[k - 1], << k - 1, inner[k][1], inner[k][2] >>)
                 ELSE F[k - 1]
    IN  F[Len(inner)]

\* Iterator::max_by with the comparator of max_offset: the last of the
\* entries with the largest offset; (2, 0) for an empty table.
LargestEntry(inner) ==
    LET F[k \in 0 .. Len(inner)] ==
            IF k = 0 THEN << 2, 0 >>
            ELSE IF k = 1 THEN inner[1]
            ELSE IF inner[k][1] >= F[k - 1][1] THEN inner[k] ELSE F[k - 1]
    IN  F[Len(inner)]

\* Locations::max_offset.
max_offset(inner) == LargestEntry(inner)[1] + LargestEntry(inner)[2]

\* Locations::estimated_size.
estimated_size(inner) == max_offset(inner) * BLOCK_SIZE

\* A variant of replace_entry_unchecked that leaves the table as it is.
replace_entry_dropped(inner, index, entry) == inner

\* Locations::replace_entry_unchecked.
replace_entry_unchecked(inner, index, entry) == [inner EXCEPT ![index + 1] = entry]

\* Locations::delete_chunk_entry_unchecked.
delete_chunk_entry_unchecked(inner, index) == [inner EXCEPT ![index + 1] = << 0, 0 >>]

\* A variant of shift_entries that also moves the entries in front of
\* start_offset.
shift_entries_from_zero(inner, start_offset, end_offset, amount) ==
    [ k \in 1 .. Len(inner) |->
        IF inner[k][1] <= end_offset
        THEN << inner[k][1] + amount, inner[k][2] >>
        ELSE inner[k] ]

\* Locations::shift_entries: every entry whose offset lies in
\* [start_offset, end_offset], both ends included, moves by amount.  The
\* sum is taken in i32 and cast to u32; offsets are below 2^24 and a moved
\* entry lies at or behind start_offset, which shift_right has just moved
\* to a sector >= 0, so the sum never leaves the range of either type.
shift_entries(inner, start_offset, end_offset, amount) ==
    [ k \in 1 .. Len(inner) |->
        IF inner[k][1] >= start_offset /\ inner[k][1] <= end_offset
        THEN << inner[k][1] + amount, inner[k][2] >>
        ELSE inner[k] ]

\* A variant of RemTrunc that gives the remainder of the magnitude.
RemMagnitude(a, m) == IF a >= 0 THEN a % m ELSE (-a) % m

\* get_chunk_index.  Rust's % truncates towards zero; 32 is added to a
\* negative remainder.
RemTrunc(a, m) == IF a >= 0 THEN a % m ELSE -((-a) % m)

get_chunk_index(x, z) ==
    LET xr == RemTrunc(x, 32)
        zr == RemTrunc(z, 32)
        xx == IF xr < 0 THEN xr + 32 ELSE xr
        zz == IF zr < 0 THEN zr + 32 ELSE zr
    IN  xx + zz * 32

\* ------------------------------------------------------------------------
\* ScanStatistics (src/scan.rs)
\* ------------------------------------------------------------------------

\* ScanStatistics::new.
NewStatistics ==
    [ total_chunks |-> 0, invalid_length |-> 0, invalid_compression_method |-> 0,
      missing_nbt |-> 0, corrupted_nbt |-> 0, corrupted_compression |-> 0,
      invalid_chunk_pointer |-> 0, failed_to_read |-> 0, shrunk_size |-> 0,
      unused_space |-> 0 ]

\* impl Add for ScanStatistics: nine counters are summed; shrunk_size is
\* not touched, so the sum keeps the left operand's.
StatAdd(a, b) ==
    [ total_chunks |-> a.total_chunks + b.total_chunks,
      invalid_length |-> a.invalid_length + b.invalid_length,
      invalid_compression_method |->
          a.invalid_compression_method + b.invalid_compression_method,
      missing_nbt |-> a.missing_nbt + b.missing_nbt,
      corrupted_nbt |-> a.corrupted_nbt + b.corrupted_nbt,
      corrupted_compression |-> a.corrupted_compression + b.corrupted_compression,
      invalid_chunk_pointer |-> a.invalid_chunk_pointer + b.invalid_chunk_pointer,
      failed_to_read |-> a.failed_to_read + b.failed_to_read,
      shrunk_size |-> a.shrunk_size,
      unused_space |-> a.unused_space + b.unused_space ]

\* One counter of a statistic raised by n.
Bump(st, field, n) == [st EXCEPT ![field] = @ + n]

\* ------------------------------------------------------------------------
\* The file: sectors, the buffered writer, chunk headers
\* ------------------------------------------------------------------------

\* A data sector as the file held it at open: its identity and what its
\* first bytes read as.
DataSector(s, h) ==
    [ id |-> s, len |-> h.len, tag |-> h.tag, pl |-> h.pl, x |-> h.x, tbl |-> << >>,
      fixed |-> FALSE ]

\* The sector holding a location table.
TableSector(bytes) ==
    [ id |-> 0, len |-> 0, tag |-> 0, pl |-> "table", x |-> 0, tbl |-> bytes,
      fixed |-> FALSE ]

\* The sector holding the timestamp table.
TimestampSector ==
    [ id |-> 1, len |-> 0, tag |-> 0, pl |-> "timestamps", x |-> 0, tbl |-> << >>,
      fixed |-> FALSE ]

\* The zeroed 4096-byte buffer shift_right writes when its read returned
\* nothing.
ZeroBlock ==
    [ id |-> -1, len |-> 0, tag |-> 0, pl |-> "zero", x |-> 0, tbl |-> << >>,
      fixed |-> FALSE ]

\* Chunk headers and payloads the files of the model hold.  pl is the
\* result of decoding and validating the payload behind the header
\* ("okxnone", "okznone": the payload validates and leaves x_pos, z_pos
\* unknown); x is the xPos the payload declares (zPos is 0).
Headers ==
    { [len |-> 4091, tag |-> 2, pl |-> "ok", x |-> 0],
      [len |-> 4091, tag |-> 1, pl |-> "ok", x |-> 1],
      [len |-> 4093, tag |-> 2, pl |-> "ok", x |-> 0],
      [len |-> 4093, tag |-> 0, pl |-> "ok", x |-> 1],
      [len |-> 8200, tag |-> 0, pl |-> "ok", x |-> 0],
      [len |-> 10, tag |-> 9, pl |-> "ok", x |-> 0],
      [len |-> 10, tag |-> 3, pl |-> "nbt", x |-> 0],
      [len |-> 10, tag |-> 2, pl |-> "io", x |-> 0],
      [len |-> 10, tag |-> 1, pl |-> "missing", x |-> 0],
      [len |-> 10, tag |-> 2, pl |-> "okxnone", x |-> 0],
      [len |-> 0, tag |-> 0, pl |-> "nbt", x |-> 0] }

\* What a sector no table entry points at reads as.
Filler == [len |-> 0, tag |-> 0, pl |-> "nbt", x |-> 0]

\* A pending write of the BufWriter: the tag byte of sector sec, or a
\* whole block (a sector's content) for sector sec.
TagWrite(sec) == [sec |-> sec, what |-> "tag", data |-> ZeroBlock]

BlockWrite(sec, data) == [sec |-> sec, what |-> "block", data |-> data]

WriteSize(w) == IF w.what = "tag" THEN 1 ELSE BLOCK_SIZE

\* The number of sectors of a file.
FileSize(d) == Cardinality(DOMAIN d)

\* The file after one write has reached it; a write behind the end of the
\* file extends it.
ApplyWrite(d, w) ==
    LET e == IF w.sec < FileSize(d) THEN d
             ELSE [s \in 0 .. w.sec |-> IF s < FileSize(d) THEN d[s] ELSE ZeroBlock]
    IN  IF w.what = "tag" THEN [e EXCEPT ![w.sec].tag = 1, ![w.sec].fixed = TRUE]
        ELSE [e EXCEPT ![w.sec] = w.data]

\* BufWriter::flush_buf: the pending writes reach the file in order.
RECURSIVE Flush(_, _)
Flush(d, buf) ==
    IF buf = << >> THEN d ELSE Flush(ApplyWrite(d, Head(buf)), Tail(buf))

RECURSIVE PendingBytes(_)
PendingBytes(buf) ==
    IF buf = << >> THEN 0 ELSE WriteSize(Head(buf)) + PendingBytes(Tail(buf))

\* BufWriter::write with capacity 2 * BLOCK_SIZE: the buffer is flushed
\* first when the new bytes do not fit; the result is the file and the
\* buffer.
BufWrite(d, buf, w) ==
    IF PendingBytes(buf) + WriteSize(w) > 2 * BLOCK_SIZE
    THEN [disk |-> Flush(d, buf), wbuf |-> << w >>]
    ELSE [disk |-> d, wbuf |-> Append(buf, w)]

\* ------------------------------------------------------------------------
\* Chunk: header read and payload validation
\* ------------------------------------------------------------------------

\* Chunk::from_buf_reader as RegionFile::scan_chunks calls it (no payload
\* is read), the reader standing at sector `offset`: the 4-byte length and
\* the tag byte are read, whatever the length is, and the reader seeks
\* behind the record.  The read fails at the end of the file and on an I/O
\* fault.
from_buf_reader(d, offset, fault) ==
    IF fault \/ offset \notin DOMAIN d THEN [ok |-> FALSE, length |-> 0, compression_type |-> 0]
    ELSE [ok |-> TRUE, length |-> d[offset].len, compression_type |-> d[offset].tag]

\* The record whose header sector `offset` holds has all of its bytes
\* behind it: every further sector the record's length reaches lies in the
\* file and holds what followed the header sector when the file was
\* opened, with no tag byte rewritten in it.
RecordWhole(d, offset) ==
    \A j \in 1 .. CeilDiv(d[offset].len + 4, BLOCK_SIZE) - 1 :
        /\ offset + j \in DOMAIN d
        /\ d[offset + j].id = d[offset].id + j
        /\ ~d[offset + j].fixed

\* What decoding gives when the payload is cut short or continues in
\* foreign bytes: a compressed stream fails in the decompressor, a raw one
\* in the tree decoder.
BrokenPayload(h) ==
    IF h.pl \in {"io", "nbt"} THEN h.pl
    ELSE IF h.tag \in {1, 2} THEN "io"
    ELSE "nbt"

\* Chunk::validate_nbt_data on the payload behind the header of sector
\* `offset`: "ok", or the kind of failure ("io": the decompressor failed,
\* "nbt": the tree decoder failed, "missing": a required field is absent or
\* malformed).  The payload is read from the file behind the header, over
\* all the sectors of the record; a zeroed sector holds no root tag.
validate_nbt_data(d, offset) ==
    IF d[offset].pl = "zero" THEN "nbt"
    ELSE IF ~RecordWhole(d, offset) THEN BrokenPayload(d[offset])
    ELSE IF d[offset].pl \in {"okxnone", "okznone"} THEN "ok"
    ELSE d[offset].pl

\* The coordinates validate_nbt_data leaves in the chunk, each an
\* Option<i32>: some is FALSE for None.
ChunkXPos(d, offset) == [some |-> d[offset].pl # "okxnone", v |-> d[offset].x]

ChunkZPos(d, offset) == [some |-> d[offset].pl # "okznone", v |-> 0]

\* The test of the pointer: both coordinates are known and their cell is
\* not the one the entry stands in.
PointsElsewhere(x, z, index) ==
    x.some /\ z.some /\ get_chunk_index(x.v, z.v) # index

\* ------------------------------------------------------------------------
\* RegionFile::scan_chunk
\* ------------------------------------------------------------------------

\* A variant of ChunkSections that takes one more than the floor.
ChunkSectionsFloor(len) == ((len + 4) \div BLOCK_SIZE) + 1

\* chunk_sections: ((chunk.length + 4) as f64 / BLOCK_SIZE as f64).ceil().
\* The sum is a u32 sum, which does not wrap for the lengths of the model
\* (all below 2^31 - 4; from 2^32 - 4 on it overflows), and the quotient
\* of two integers below 2^53 is ceiled exactly.
ChunkSections(len) == CeilDiv(len + 4, BLOCK_SIZE)

\* The test of the compression type.
InvalidCompression(tag) == tag > 3

\* A variant of FixCompression that writes the tag byte without fix.
FixCompressionAlways(d, buf, offset, o) ==
    BufWrite(Flush(d, buf), << >>, TagWrite(offset))

\* A variant of FixCompression that writes a whole zeroed block over the
\* record.
FixCompressionBlock(d, buf, offset, o) ==
    IF o.fix
    THEN BufWrite(Flush(d, buf), << >>, BlockWrite(offset, ZeroBlock))
    ELSE [disk |-> d, wbuf |-> buf]

\* The repair of an invalid compression type: with fix, the writer seeks
\* to the tag byte of the record (which flushes its buffer) and one byte,
\* 1 for GZIP, is written into the buffer.
\* This is the repair whose seek succeeds; ScanChunkFailPoints lists how it
\* can fail.
FixCompression(d, buf, offset, o) ==
    IF o.fix
    THEN BufWrite(Flush(d, buf), << >>, TagWrite(offset))
    ELSE [disk |-> d, wbuf |-> buf]

\* The test of the declared sector count against the chunk's length.
LengthMismatch(sections, len) ==
    sections # AsU8Saturating(ChunkSections(len)) \/ len >= UnreasonableLength

\* The last step of scan_chunk: the length check, and with fix the
\* corrected entry.
LengthCheck(r, index, offset, sections, len, o) ==
    IF LengthMismatch(sections, len)
    THEN [r EXCEPT !.stat = Bump(@, "invalid_length", 1),
                   !.loc = IF o.fix
                           THEN replace_entry_unchecked(@, index,
                                    << offset, AsU8Saturating(ChunkSections(len)) >>)
                           ELSE @]
    ELSE r

\* A variant of FailureCounter that counts every failure as corrupted NBT.
FailureCounterNbt(kind) == "corrupted_nbt"

\* The counter a failed validation raises.
FailureCounter(kind) ==
    IF kind = "io" THEN "corrupted_compression"
    ELSE IF kind = "nbt" THEN "corrupted_nbt"
    ELSE "missing_nbt"

\* scan_chunk.  The result holds the statistic, the table, the file and
\* the writer's buffer after the call, and `exists`, the value returned.
\* This is the call whose seeks succeed; scan_chunk_failed is the call in
\* which one of them fails.
scan_chunk(index, offset, sections, chunk, st, loc, d, buf, o) ==
    LET r0 == [stat |-> st, loc |-> loc, disk |-> d, wbuf |-> buf, exists |-> TRUE]
    IN  IF InvalidCompression(chunk.compression_type)
        THEN LET w  == FixCompression(d, buf, offset, o)
                 r1 == [r0 EXCEPT !.stat = Bump(@, "invalid_compression_method", 1),
                                  !.disk = w.disk,
                                  !.wbuf = w.wbuf]
             IN  LengthCheck(r1, index, offset, sections, chunk.length, o)
        ELSE LET v == validate_nbt_data(d, offset)
             IN  IF v # "ok"
                 THEN LET r1 == [r0 EXCEPT !.stat = Bump(@, FailureCounter(v), 1)]
                      IN  IF o.fix_delete
                          THEN [r1 EXCEPT !.loc = delete_chunk_entry_unchecked(@, index),
                                          !.exists = FALSE]
                          ELSE LengthCheck(r1, index, offset, sections, chunk.length, o)
                 ELSE IF PointsElsewhere(ChunkXPos(d, offset), ChunkZPos(d, offset), index)
                      THEN LET r1 == [r0 EXCEPT
                                        !.stat = Bump(@, "invalid_chunk_pointer", 1),
                                        !.loc = IF o.fix_delete
                                                THEN delete_chunk_entry_unchecked(@, index)
                                                ELSE @]
                           IN  LengthCheck(r1, index, offset, sections, chunk.length, o)
                      ELSE LengthCheck(r0, index, offset, sections, chunk.length, o)

\* ------------------------------------------------------------------------
\* Sorting (slice::sort_by is stable)
\* ------------------------------------------------------------------------

\* A sequence of <<key, element>> pairs sorted by key; a pair is inserted
\* behind every pair whose key is not greater than its own, as the
\* comparators below answer Less exactly for the smaller key.
RECURSIVE InsertStable(_, _)
InsertStable(s, e) ==
    IF s = << >> THEN << e >>
    ELSE IF e[1] < s[Len(s)][1]
         THEN Append(InsertStable(SubSeq(s, 1, Len(s) - 1), e), s[Len(s)])
         ELSE Append(s, e)

RECURSIVE SortStable(_)
SortStable(s) ==
    IF s = << >> THEN << >>
    ELSE InsertStable(SortStable(SubSeq(s, 1, Len(s) - 1)), s[Len(s)])

\* The key of the comparator of scan_chunks on <<index, offset, sections>>:
\* the offset.
EntryKey(e) == e[2]

\* The key of the comparator of perform_shift_operations on
\* <<offset, amount>>: the resulting offset.  (Its Greater branch compares
\* to_offset1 with itself and is never taken; the sort only asks whether
\* the answer is Less.)
ShiftKey(op) == op[1] + op[2]

\* A variant of SortEntries that leaves the entries in table order.
SortEntriesNone(es) == es

SortEntries(es) ==
    LET sorted == SortStable([k \in 1 .. Len(es) |-> << EntryKey(es[k]), es[k] >>])
    IN  [k \in 1 .. Len(es) |-> sorted[k][2]]

\* A variant of SortShiftOperations that sorts by descending resulting
\* offset.
SortShiftOperationsDescending(sops) ==
    LET sorted == SortStable([k \in 1 .. Len(sops) |-> << -ShiftKey(sops[k]), sops[k] >>])
    IN  [k \in 1 .. Len(sops) |-> sorted[k][2]]

SortShiftOperations(sops) ==
    LET sorted == SortStable([k \in 1 .. Len(sops) |-> << ShiftKey(sops[k]), sops[k] >>])
    IN  [k \in 1 .. Len(sops) |-> sorted[k][2]]

\* ------------------------------------------------------------------------
\* RegionFile::shift_right
\* ------------------------------------------------------------------------

\* A variant of ShiftLoop that writes every block one sector lower.
RECURSIVE ShiftLoopLower(_, _, _, _, _, _)
ShiftLoopLower(d, buf, start, end, amount, j) ==
    IF j >= end - start THEN [disk |-> d, wbuf |-> buf]
    ELSE IF start + j >= FileSize(d)
         THEN BufWrite(d, buf, BlockWrite(start + amount + j - 1, ZeroBlock))
         ELSE LET w == BufWrite(d, buf, BlockWrite(start + amount + j - 1, d[start + j]))
              IN  ShiftLoopLower(w.disk, w.wbuf, start, end, amount, j + 1)

\* The copy loop from its j-th round on: a block is read at sector
\* start + j of the file as it is on disk and written through the
\* BufWriter to sector start + amount + j; past the end of the file the
\* read returns nothing, the zeroed buffer is written and the loop ends.
RECURSIVE ShiftLoop(_, _, _, _, _, _)
ShiftLoop(d, buf, start, end, amount, j) ==
    IF j >= end - start THEN [disk |-> d, wbuf |-> buf]
    ELSE IF start + j >= FileSize(d)
         THEN BufWrite(d, buf, BlockWrite(start + amount + j, ZeroBlock))
         ELSE LET w == BufWrite(d, buf, BlockWrite(start + amount + j, d[start + j]))
              IN  ShiftLoop(w.disk, w.wbuf, start, end, amount, j + 1)

\* shift_right; the seeks of the writer flush its buffer.  ok is FALSE when
\* the writer is asked to seek before the start of the file.
shift_right(d, buf, start, end, amount) ==
    IF start + amount < 0
    THEN [ok |-> FALSE, disk |-> Flush(d, buf), wbuf |-> << >>]
    ELSE LET r == ShiftLoop(Flush(d, buf), << >>, start, end, amount, 0)
         IN  [ok |-> TRUE, disk |-> r.disk, wbuf |-> r.wbuf]

\* The rounds the copy loop of shift_right goes through on the file d: one
\* per sector of the range, and no round after the one whose read starts
\* at or behind the end of the file.
ShiftRounds(d, start, end) ==
    IF end <= start THEN 0
    ELSE Min(end - start, Max(FileSize(d) - start, 0) + 1)

\* The points at which an I/O error can end shift_right: -1, the seek of
\* the reader or the flush that opens the first seek of the writer; 0, a
\* seek of the writer once its buffer is flushed, or the read of the first
\* round; n, the read or the write of round n, which the loop must reach
\* (no round is reached when the writer would seek before the file).
ShiftFailPoints(d, buf, start, end, amount) ==
    IF start + amount < 0 THEN {-1, 0}
    ELSE -1 .. Max(ShiftRounds(Flush(d, buf), start, end) - 1, 0)

\* shift_right ends with an I/O error at point n: the blocks of the n
\* rounds before it have gone through the BufWriter, and what it holds
\* stays pending.  (A write fails in the flush that makes room for the
\* new block, which leaves the buffer as it was.)
shift_right_failed(d, buf, start, end, amount, n) ==
    IF n < 0 THEN [disk |-> d, wbuf |-> buf]
    ELSE ShiftLoop(Flush(d, buf), << >>, start, start + n, amount, 0)

\* ------------------------------------------------------------------------
\* NBTReader (src/nbt.rs)
\* ------------------------------------------------------------------------

\* The reader is a record: inp, the bytes; at, the index of the next byte;
\* recursion, the field of NBTReader; stack, one frame per call of
\* parse_compound or parse_list in progress (the innermost last); pc,
\* "start", "run", "ok" or "err"; err, the NBTError.  The decoded values
\* are not kept: only how the bytes are consumed and how the calls nest.

NBTReaderNew(inp) ==
    [ inp |-> inp, at |-> 1, recursion |-> 0, stack |-> << >>, pc |-> "start",
      err |-> "none" ]

NbtFail(n, e) == [n EXCEPT !.pc = "err", !.err = e]

\* Whether k more bytes can be read.
NbtHas(n, k) == n.at + k - 1 <= Len(n.inp)

\* The big-endian number in the k bytes at n.at.
RECURSIVE NbtNumber(_, _, _)
NbtNumber(inp, at, k) ==
    IF k = 0 THEN 0 ELSE NbtNumber(inp, at, k - 1) * 256 + inp[at + k - 1]

\* A continuation byte of a UTF-8 sequence.
Utf8Cont(b) == b >= 128 /\ b <= 191

\* The bytes a UTF-8 sequence starting with the byte b takes, 0 when b
\* starts none (a continuation byte, the overlong leads C0 and C1, and
\* the leads above F4).
Utf8Width(b) ==
    IF b < 128 THEN 1
    ELSE IF b >= 194 /\ b <= 223 THEN 2
    ELSE IF b >= 224 /\ b <= 239 THEN 3
    ELSE IF b >= 240 /\ b <= 244 THEN 4
    ELSE 0

\* The second byte of a sequence led by b: a continuation byte, narrowed
\* after E0 and F0 (no overlong form), ED (no surrogate) and F4 (nothing
\* above U+10FFFF).
Utf8Second(b, c) ==
    IF b = 224 THEN c >= 160 /\ c <= 191
    ELSE IF b = 237 THEN c >= 128 /\ c <= 159
    ELSE IF b = 240 THEN c >= 144 /\ c <= 191
    ELSE IF b = 244 THEN c >= 128 /\ c <= 143
    ELSE Utf8Cont(c)

\* The bytes inp[at .. end] are a run of well-formed UTF-8 sequences.
RECURSIVE Utf8Run(_, _, _)
Utf8Run(inp, at, end) ==
    IF at > end THEN TRUE
    ELSE LET b == inp[at]
             w == Utf8Width(b)
         IN  IF w = 0 \/ at + w - 1 > end THEN FALSE
             ELSE IF w = 1 THEN Utf8Run(inp, at + 1, end)
             ELSE IF ~Utf8Second(b, inp[at + 1]) THEN FALSE
             ELSE IF w >= 3 /\ ~Utf8Cont(inp[at + 2]) THEN FALSE
             ELSE IF w = 4 /\ ~Utf8Cont(inp[at + 3]) THEN FALSE
             ELSE Utf8Run(inp, at + w, end)

\* String::from_utf8 accepts the k bytes at `at`.
Utf8Valid(inp, at, k) == Utf8Run(inp, at, at + k - 1)

CompoundFrame == [kind |-> "compound", tag |-> 10, left |-> 0]

ListFrame(tag, count) == [kind |-> "list", tag |-> tag, left |-> count]

\* A variant of RecursionExceeded that fails one level earlier.
RecursionExceededAt(r) == r >= MAX_RECURSION

\* The test at the head of parse_compound, on the counter just raised.
RecursionExceeded(r) == r > MAX_RECURSION

\* parse_compound is entered: the counter is raised and tested.
EnterCompound(n) ==
    LET m == [n EXCEPT !.recursion = @ + 1]
    IN  IF RecursionExceeded(m.recursion)
        THEN NbtFail(m, "RecursionError")
        ELSE [m EXCEPT !.stack = Append(@, CompoundFrame)]

\* A read meets the end of the input: read_exact has taken the bytes that
\* were left before it returns the error.
NbtShort(n) == NbtFail([n EXCEPT !.at = Len(n.inp) + 1], "IO")

\* k bytes are read and dropped (read_u8, read_i16 ... read_f64, and the
\* elements of the arrays, which are read one by one: when the input ends
\* inside the array the elements that were there are consumed).
NbtSkip(n, k) == IF NbtHas(n, k) THEN [n EXCEPT !.at = @ + k] ELSE NbtShort(n)

\* parse_string: a u16 length, then that many bytes, which are read and
\* then tested as UTF-8; a length of zero reads nothing more.
ParseString(n) ==
    IF ~NbtHas(n, 2) THEN NbtShort(n)
    ELSE LET k == NbtNumber(n.inp, n.at, 2)
             m == [n EXCEPT !.at = @ + 2]
         IN  IF k = 0 THEN m
             ELSE IF ~NbtHas(m, k) THEN NbtShort(m)
             ELSE IF ~Utf8Valid(m.inp, m.at, k)
                  THEN NbtFail([m EXCEPT !.at = @ + k], "InvalidName")
             ELSE [m EXCEPT !.at = @ + k]

\* parse_byte_array, parse_int_array, parse_long_array: a u32 length, then
\* that many elements of `width` bytes.
ParseArray(n, width) ==
    IF ~NbtHas(n, 4) THEN NbtShort(n)
    ELSE NbtSkip([n EXCEPT !.at = @ + 4], width * NbtNumber(n.inp, n.at, 4))

\* The head of parse_list: the element tag, the u32 length, and the choice
\* of the element parser, which rejects a tag above 12.
EnterList(n) ==
    IF ~NbtHas(n, 5) THEN NbtShort(n)
    ELSE LET tag == n.inp[n.at]
             m   == [n EXCEPT !.at = @ + 5]
         IN  IF tag > 12 THEN NbtFail(m, "InvalidTag")
             ELSE [m EXCEPT !.stack = Append(@, ListFrame(tag, NbtNumber(n.inp, n.at + 1, 4)))]

\* The bytes of the fixed-width values.
ScalarWidth(tag) ==
    CASE tag = 1 -> 1 [] tag = 2 -> 2 [] tag = 3 -> 4 [] tag = 4 -> 8
      [] tag = 5 -> 4 [] tag = 6 -> 8 [] OTHER -> 0

\* The value of one tag is parsed: the match of parse_compound and the
\* element parsers of parse_list.
ParseValue(n, tag) ==
    IF tag = 0 THEN n
    ELSE IF tag \in 1 .. 6 THEN NbtSkip(n, ScalarWidth(tag))
    ELSE IF tag = 7 THEN ParseArray(n, 1)
    ELSE IF tag = 8 THEN ParseString(n)
    ELSE IF tag = 9 THEN EnterList(n)
    ELSE IF tag = 10 THEN EnterCompound(n)
    ELSE IF tag = 11 THEN ParseArray(n, 4)
    ELSE IF tag = 12 THEN ParseArray(n, 8)
    ELSE NbtFail(n, "InvalidTag")

\* The innermost call returns: parse_compound lowers the counter first.
NbtReturn(n) ==
    LET top == n.stack[Len(n.stack)]
        m   == [n EXCEPT !.stack = SubSeq(@, 1, Len(@) - 1),
                         !.recursion = IF top.kind = "compound" THEN @ - 1 ELSE @]
    IN  IF m.stack = << >> THEN [m EXCEPT !.pc = "ok"] ELSE m

\* NBTReader::parse up to the body of the root compound: the root tag must
\* be 10; `read` takes up to two bytes of its name length.
NbtParse(n) ==
    IF ~NbtHas(n, 1) THEN NbtFail(n, "IO")
    ELSE IF n.inp[n.at] # 10 THEN NbtFail([n EXCEPT !.at = @ + 1], "MissingRootTag")
    ELSE LET m == [n EXCEPT !.at = Min(@ + 3, Len(n.inp) + 1), !.pc = "run"]
         IN  EnterCompound(m)

\* One round of the loop of the innermost call: parse_compound reads a
\* tag, returns on 0, else reads the name and the value; parse_list parses
\* one more element, or returns when none is left.
NbtRound(n) ==
    LET top == n.stack[Len(n.stack)]
    IN  IF top.kind = "list"
        THEN IF top.left = 0 THEN NbtReturn(n)
             ELSE ParseValue([n EXCEPT !.stack[Len(n.stack)].left = @ - 1], top.tag)
        ELSE IF ~NbtHas(n, 1) THEN NbtFail(n, "IO")
             ELSE LET tag == n.inp[n.at]
                      m   == [n EXCEPT !.at = @ + 1]
                  IN  IF tag = 0 THEN NbtReturn(m)
                      ELSE LET named == ParseString(m)
                           IN  IF named.pc = "err" THEN named
                               ELSE ParseValue(named, tag)

\* ------------------------------------------------------------------------
\* State
\* ------------------------------------------------------------------------

VARIABLES
    \* RegionFile and the scan of one file
    opts,               \* ScanOptions: [fix, fix_delete]
    disk,               \* the file: sector number -> sector
    wbuf,               \* the writes pending in RegionFile.writer
    length,             \* RegionFile.length, the file size in bytes at open
    locations,          \* RegionFile.locations.inner
    entries,            \* scan_chunks: the sorted valid entries
    pos,                \* scan_chunks: the entry the for loop is at (1-based)
    previous_offset,
    previous_sections,
    statistic,
    shift_operations,   \* the vector scan_chunks collects, then sorted
    opk,                \* perform_shift_operations: the operation the loop is at
    shifted,
    pc,                 \* "scan", "shift", "done", "failed", "closed"
    faults,             \* I/O faults injected so far
    \* history of the scan (read by the properties only)
    disk0,              \* the file as opened
    last,               \* the entry processed by the latest loop round
    visited,            \* the offsets of the entries processed, in order
    ioerr,              \* the I/O faults that occurred: a set of names
    tableWrites,        \* writes of the location table issued
    moves,              \* the rounds of perform_shift_operations gone through
    \* parts of the program looked at on their own
    codec,              \* the location table codec: [pc, bytes, inner, out]
    nbt,                \* an NBTReader at work
    agg,                \* WorldFolder::scan_files: [pc, fix_delete, files, parts,
                        \* removed, result]
    chk,                \* the length check of one chunk
    grid,               \* get_chunk_index at work: [pc, x, z, index]
    est,                \* Locations::estimated_size at work: [pc, inner, size]
    val,                \* Chunk::validate_nbt_data at work: [pc, chunk, result]
    pass                \* the scan of the file under way: [n, found], n is 1, or
                        \* 2 when the file is scanned again, found is what the
                        \* first scan returned

scanVars ==
    << opts, disk, wbuf, length, locations, entries, pos, previous_offset,
       previous_sections, statistic, shift_operations, opk, shifted, pc, faults,
       disk0, last, visited, ioerr, tableWrites, moves >>

auxVars == << codec, nbt, agg, chk, grid, est, val, pass >>

vars == << scanVars, auxVars >>

\* ------------------------------------------------------------------------
\* The scan of one region file
\* ------------------------------------------------------------------------

NumCells == Cardinality(Slots)

\* Entries besides those of Counts: a record of three sectors, an entry
\* that starts in the file and ends behind it, and one that lies behind
\* the file.
FarEntries ==
    { << 3, 3 >>, << 2, FileSectors - 1 >>, << FileSectors + 1, 1 >> }

\* The entries a table cell holds at open: absent, or a valid entry.
EntrySet ==
    { << 0, 0 >> } \cup { << o, c >> : o \in 2 .. FileSectors - 1, c \in Counts }
        \cup FarEntries

\* The sectors of the file the valid entries of a table point at.
PointedSectors(inner) ==
    { inner[k][1] : k \in { j \in 1 .. Len(inner) : inner[j][1] >= 2 } }
        \cap (2 .. FileSectors - 1)

\* The file as it is once the pending writes are flushed.
File == Flush(disk, wbuf)

NoEntry == [kind |-> "none", index |-> 0, offset |-> 0, sections |-> 0,
            length |-> 0, tag |-> 0, stat |-> NewStatistics, file |-> << >>,
            loc |-> << >>, prev |-> << 2, 0 >>]

\* RegionFile::new on a file of FileSectors sectors, followed by the first
\* lines of scan_chunks (the entries are collected and sorted, the total
\* is counted).
InitScan ==
    \E o \in [fix : BOOLEAN, fix_delete : BOOLEAN] :
    \E inner \in [1 .. NumCells -> EntrySet] :
    \E hd \in [PointedSectors(inner) -> Headers] :
        LET d == [ s \in 0 .. FileSectors - 1 |->
                     IF s = 0 THEN TableSector(to_bytes(inner))
                     ELSE IF s = 1 THEN TimestampSector
                     ELSE IF s \in DOMAIN hd THEN DataSector(s, hd[s])
                     ELSE DataSector(s, Filler) ]
            loc == from_bytes(d[0].tbl)
        IN  /\ opts = o
            /\ disk = d
            /\ disk0 = d
            /\ wbuf = << >>
            /\ length = FileSectors * BLOCK_SIZE
            /\ locations = loc
            /\ entries = SortEntries(valid_entries_enumerate(loc))
            /\ pos = 1
            /\ previous_offset = 2
            /\ previous_sections = 0
            /\ statistic = [NewStatistics EXCEPT
                              !.total_chunks = Len(valid_entries_enumerate(loc))]
            /\ shift_operations = << >>
            /\ opk = 0
            /\ shifted = 0
            /\ pc = "scan"
            /\ faults = 0
            /\ last = NoEntry
            /\ visited = << >>
            /\ ioerr = {}
            /\ tableWrites = 0
            /\ moves = << >>

\* The places where the I/O of scan_chunk can fail, each making scan_chunk
\* and then scan_chunks return the error.  With an invalid compression
\* type and fix, writer.seek first flushes what is pending: "flush" is that
\* flush failing (only when something is pending), "seek" the seek itself
\* failing after the flush went through; write_u8 then only fills the
\* emptied buffer.  With a valid compression type, "reader" is the seek of
\* the reader to the chunk's data failing.
ScanChunkFailPoints(chunk, buf, o) ==
    IF InvalidCompression(chunk.compression_type)
    THEN IF o.fix
         THEN {"seek"} \cup (IF buf # << >> THEN {"flush"} ELSE {})
         ELSE {}
    ELSE {"reader"}

\* scan_chunk up to the I/O call that fails at `at`: the statistic has the
\* count made before the call, the file has what the flush inside
\* writer.seek wrote, and the location table is as it was.
scan_chunk_failed(chunk, st, d, buf, at) ==
    [stat |-> IF InvalidCompression(chunk.compression_type)
              THEN Bump(st, "invalid_compression_method", 1)
              ELSE st,
     disk |-> IF at = "seek" THEN Flush(d, buf) ELSE d,
     wbuf |-> IF at = "seek" THEN << >> ELSE buf]

\* A variant of OffsetDiff that measures from the start of the previous
\* entry.
OffsetDiffFromStart(offset, prev_offset, prev_sections) == offset - prev_offset

\* The gap test at the head of the loop body.
OffsetDiff(offset, prev_offset, prev_sections) == offset - (prev_offset + prev_sections)

\* A variant of OutOfBounds that also rejects an entry ending exactly
\* at the end of the file.
OutOfBoundsAtEnd(offset, sections, len) ==
    offset < 2 \/ len <= (offset + sections) * BLOCK_SIZE

\* The bounds test of scan_chunks.
OutOfBounds(offset, sections, len) == offset < 2 \/ len < (offset + sections) * BLOCK_SIZE

\* One round of the for loop of scan_chunks on entries[pos].  readFault
\* says whether reading the chunk header meets an I/O error.
\* ScanSeekFails and ScanChunkFails are the rounds that end in the error of
\* a seek.
ScanEntry(readFault) ==
    /\ pc = "scan"
    /\ pos <= Len(entries)
    /\ readFault => faults < MaxFaults
    /\ LET index    == entries[pos][1]
           offset   == entries[pos][2]
           sections == entries[pos][3]
           diff     == OffsetDiff(offset, previous_offset, previous_sections)
           st1      == IF diff > 0
                       THEN Bump(statistic, "unused_space", BLOCK_SIZE * diff)
                       ELSE statistic
           ops1     == IF diff > 0 /\ opts.fix
                       THEN Append(shift_operations, << offset, -diff >>)
                       ELSE shift_operations
           chunk    == from_buf_reader(disk, offset, readFault)
           r        == scan_chunk(index, offset, sections, chunk, st1, locations,
                                  disk, wbuf, opts)
           removal  == << offset + sections, -sections >>
           hist     == [kind |-> "scanned", index |-> index, offset |-> offset,
                        sections |-> sections, length |-> chunk.length,
                        tag |-> chunk.compression_type, stat |-> statistic,
                        file |-> File, loc |-> locations,
                        prev |-> << previous_offset, previous_sections >>]
       IN  /\ visited' = Append(visited, offset)
           /\ pos' = pos + 1
           /\ IF OutOfBounds(offset, sections, length)
              THEN /\ statistic' = Bump(st1, "invalid_chunk_pointer", 1)
                   /\ locations' = IF opts.fix_delete
                                   THEN delete_chunk_entry_unchecked(locations, index)
                                   ELSE locations
                   /\ shift_operations' = ops1
                   /\ last' = [hist EXCEPT !.kind = "bounds"]
                   /\ ~readFault
                   /\ UNCHANGED << disk, wbuf, previous_offset, previous_sections,
                                   faults, ioerr >>
              ELSE IF chunk.ok
              THEN /\ ~readFault
                   /\ statistic' = r.stat
                   /\ locations' = r.loc
                   /\ disk' = r.disk
                   /\ wbuf' = r.wbuf
                   /\ shift_operations' = IF ~r.exists /\ opts.fix
                                          THEN Append(ops1, removal)
                                          ELSE ops1
                   /\ previous_offset' = offset
                   /\ previous_sections' = sections
                   /\ last' = hist
                   /\ UNCHANGED << faults, ioerr >>
              ELSE /\ statistic' = Bump(st1, "failed_to_read", 1)
                   /\ locations' = IF opts.fix_delete
                                   THEN delete_chunk_entry_unchecked(locations, index)
                                   ELSE locations
                   /\ shift_operations' = IF opts.fix_delete
                                          THEN Append(ops1, removal)
                                          ELSE ops1
                   /\ previous_offset' = offset
                   /\ previous_sections' = sections
                   /\ last' = [hist EXCEPT !.kind = "unread"]
                   /\ faults' = IF readFault THEN faults + 1 ELSE faults
                   /\ ioerr' = IF readFault THEN ioerr \cup {"read"} ELSE ioerr
                   /\ UNCHANGED << disk, wbuf >>
    /\ UNCHANGED << opts, length, entries, opk, shifted, pc, disk0, tableWrites >>
    /\ UNCHANGED moves
    /\ UNCHANGED auxVars

\* reader.seek at the head of a loop round fails: scan_chunks returns the
\* error.
ScanSeekFails ==
    /\ pc = "scan"
    /\ pos <= Len(entries)
    /\ faults < MaxFaults
    /\ faults' = faults + 1
    /\ ioerr' = ioerr \cup {"seek"}
    /\ pc' = "failed"
    /\ UNCHANGED << opts, disk, wbuf, length, locations, entries, pos, previous_offset,
                    previous_sections, statistic, shift_operations, opk, shifted,
                    disk0, last, visited, tableWrites >>
    /\ UNCHANGED moves
    /\ UNCHANGED auxVars

\* A loop round whose entry is in bounds and whose chunk header was read,
\* and in which a seek inside scan_chunk fails: scan_chunks returns the
\* error, after the gap test of the round and whatever the flush inside
\* writer.seek wrote.
ScanChunkFails ==
    /\ pc = "scan"
    /\ pos <= Len(entries)
    /\ faults < MaxFaults
    /\ LET offset   == entries[pos][2]
           sections == entries[pos][3]
           diff     == OffsetDiff(offset, previous_offset, previous_sections)
           st1      == IF diff > 0
                       THEN Bump(statistic, "unused_space", BLOCK_SIZE * diff)
                       ELSE statistic
           ops1     == IF diff > 0 /\ opts.fix
                       THEN Append(shift_operations, << offset, -diff >>)
                       ELSE shift_operations
           chunk    == from_buf_reader(disk, offset, FALSE)
       IN  /\ ~OutOfBounds(offset, sections, length)
           /\ chunk.ok
           /\ \E at \in ScanChunkFailPoints(chunk, wbuf, opts) :
                  LET r == scan_chunk_failed(chunk, st1, disk, wbuf, at)
                  IN  /\ statistic' = r.stat
                      /\ disk' = r.disk
                      /\ wbuf' = r.wbuf
           /\ shift_operations' = ops1
    /\ faults' = faults + 1
    /\ ioerr' = ioerr \cup {"seek"}
    /\ pc' = "failed"
    /\ UNCHANGED << opts, length, locations, entries, pos, previous_offset,
                    previous_sections, opk, shifted, disk0, last, visited,
                    tableWrites >>
    /\ UNCHANGED moves
    /\ UNCHANGED auxVars

\* The loop is over and no fix mode is set: scan_chunks returns the
\* statistic.
ReturnUnrepaired ==
    /\ pc = "scan"
    /\ pos > Len(entries)
    /\ ~(opts.fix \/ opts.fix_delete)
    /\ pc' = "done"
    /\ UNCHANGED << opts, disk, wbuf, length, locations, entries, pos, previous_offset,
                    previous_sections, statistic, shift_operations, opk, shifted,
                    faults, disk0, last, visited, ioerr, tableWrites >>
    /\ UNCHANGED moves
    /\ UNCHANGED auxVars

\* The loop is over and a fix mode is set: perform_shift_operations is
\* entered and sorts the operations.
BeginRepair ==
    /\ pc = "scan"
    /\ pos > Len(entries)
    /\ opts.fix \/ opts.fix_delete
    /\ shift_operations' = SortShiftOperations(shift_operations)
    /\ opk' = 1
    /\ shifted' = 0
    /\ pc' = "shift"
    /\ UNCHANGED << opts, disk, wbuf, length, locations, entries, pos, previous_offset,
                    previous_sections, statistic, faults, disk0, last, visited, ioerr,
                    tableWrites >>
    /\ UNCHANGED moves
    /\ UNCHANGED auxVars

\* A variant of EndOffset that ends the range at the offset of the next
\* operation instead of its resulting offset.
EndOffsetAtPosition(sops, k, inner) ==
    IF k < Len(sops) THEN sops[k + 1][1] ELSE max_offset(inner)

\* The end of the range the opk-th operation moves: the resulting offset
\* of the next operation, or max_offset for the last one.
EndOffset(sops, k, inner) ==
    IF k < Len(sops) THEN sops[k + 1][1] + sops[k + 1][2] ELSE max_offset(inner)

\* What a round of the while loop of perform_shift_operations went
\* through: the operation's offset, the end of its range, the running sum
\* of the amounts, how the round ended ("copied", "inverted": the range was
\* inverted and the loop left, "failed": shift_right returned an error), and
\* the file and the table before and after it.
Move(offset, end, total, kind, file1, loc1) ==
    [ offset |-> offset, end |-> end, shifted |-> total, kind |-> kind,
      before |-> File, after |-> file1, loc |-> locations, loc1 |-> loc1 ]

\* One round of the while loop of perform_shift_operations.  An inverted
\* range is logged and ends the loop; a seek before the start of the file
\* is an error that scan_chunks returns.
ShiftStep ==
    /\ pc = "shift"
    /\ opk <= Len(shift_operations)
    /\ LET offset == shift_operations[opk][1]
           total  == shifted + shift_operations[opk][2]
           end    == EndOffset(shift_operations, opk, locations)
           r      == shift_right(disk, wbuf, offset, end, total)
           moved  == shift_entries(locations, offset, end, total)
       IN  /\ shifted' = total
           /\ IF offset > end
              THEN /\ opk' = Len(shift_operations) + 1
                   /\ moves' = Append(moves, Move(offset, end, total, "inverted",
                                                  File, locations))
                   /\ UNCHANGED << disk, wbuf, locations, pc >>
              ELSE /\ disk' = r.disk
                   /\ wbuf' = r.wbuf
                   /\ IF r.ok
                      THEN /\ locations' = moved
                           /\ opk' = opk + 1
                           /\ pc' = pc
                           /\ moves' = Append(moves, Move(offset, end, total, "copied",
                                                          Flush(r.disk, r.wbuf), moved))
                      ELSE /\ pc' = "failed"
                           /\ moves' = Append(moves, Move(offset, end, total, "failed",
                                                          File, locations))
                           /\ UNCHANGED << locations, opk >>
    /\ UNCHANGED << opts, length, entries, pos, previous_offset, previous_sections,
                    statistic, shift_operations, faults, disk0, last, visited, ioerr,
                    tableWrites >>
    /\ UNCHANGED auxVars

\* A variant of ShiftFails in which the failed relocation is skipped and
\* the loop goes on.
ShiftFailsSwallowed ==
    /\ pc = "shift"
    /\ opk <= Len(shift_operations)
    /\ shift_operations[opk][1] <= EndOffset(shift_operations, opk, locations)
    /\ faults < MaxFaults
    /\ faults' = faults + 1
    /\ ioerr' = ioerr \cup {"shift"}
    /\ shifted' = shifted + shift_operations[opk][2]
    /\ opk' = opk + 1
    /\ UNCHANGED << opts, disk, wbuf, length, locations, entries, pos, previous_offset,
                    previous_sections, statistic, shift_operations, pc, disk0, last,
                    visited, tableWrites >>
    /\ moves' = Append(moves, Move(shift_operations[opk][1],
                                   EndOffset(shift_operations, opk, locations),
                                   shifted + shift_operations[opk][2], "failed",
                                   File, locations))
    /\ UNCHANGED auxVars

\* shift_right meets an I/O error, at its seeks or in a round of its copy
\* loop: scan_chunks returns the error; the blocks copied before it stay
\* written or pending.
ShiftFails ==
    /\ pc = "shift"
    /\ opk <= Len(shift_operations)
    /\ shift_operations[opk][1] <= EndOffset(shift_operations, opk, locations)
    /\ faults < MaxFaults
    /\ faults' = faults + 1
    /\ ioerr' = ioerr \cup {"shift"}
    /\ shifted' = shifted + shift_operations[opk][2]
    /\ pc' = "failed"
    /\ LET offset == shift_operations[opk][1]
           total  == shifted + shift_operations[opk][2]
           end    == EndOffset(shift_operations, opk, locations)
       IN  \E n \in ShiftFailPoints(disk, wbuf, offset, end, total) :
               LET r == shift_right_failed(disk, wbuf, offset, end, total, n)
               IN  /\ disk' = r.disk
                   /\ wbuf' = r.wbuf
                   /\ moves' = Append(moves, Move(offset, end, total, "failed",
                                                  Flush(r.disk, r.wbuf), locations))
    /\ UNCHANGED << opts, length, locations, entries, pos, previous_offset,
                    previous_sections, statistic, shift_operations, opk, disk0, last,
                    visited, tableWrites >>
    /\ UNCHANGED auxVars

\* The tail of scan_chunks with a fix mode set: the size estimate, then the
\* table is written at the start of the file and the writer flushed.
WriteTable ==
    /\ pc = "shift"
    /\ opk > Len(shift_operations)
    /\ statistic' = [statistic EXCEPT !.shrunk_size = estimated_size(locations)]
    /\ disk' = Flush(Flush(disk, wbuf),
                     << BlockWrite(0, TableSector(to_bytes(locations))) >>)
    /\ wbuf' = << >>
    /\ tableWrites' = tableWrites + 1
    /\ pc' = "done"
    /\ UNCHANGED << opts, length, locations, entries, pos, previous_offset,
                    previous_sections, shift_operations, opk, shifted, faults, disk0,
                    last, visited, ioerr >>
    /\ UNCHANGED moves
    /\ UNCHANGED auxVars

\* The tail of scan_chunks meets an I/O error, which scan_chunks returns.
\* "flush": the flush that opens writer.seek fails, what was pending stays
\* pending.  "seek": the seek itself fails, what was pending has reached
\* the file.  "write": the table has gone into the buffer (it is empty and
\* large enough, write_all cannot fail) and writer.flush fails: the table
\* stays pending.
WriteTableFails ==
    /\ pc = "shift"
    /\ opk > Len(shift_operations)
    /\ faults < MaxFaults
    /\ faults' = faults + 1
    /\ statistic' = [statistic EXCEPT !.shrunk_size = estimated_size(locations)]
    /\ pc' = "failed"
    /\ \E at \in {"flush", "seek", "write"} :
           /\ disk' = IF at = "flush" THEN disk ELSE Flush(disk, wbuf)
           /\ wbuf' = IF at = "flush" THEN wbuf
                      ELSE IF at = "seek" THEN << >>
                      ELSE << BlockWrite(0, TableSector(to_bytes(locations))) >>
           /\ tableWrites' = IF at = "write" THEN tableWrites + 1 ELSE tableWrites
           /\ ioerr' = ioerr \cup {IF at = "write" THEN "tablewrite" ELSE "table"}
    /\ UNCHANGED << opts, length, locations, entries, pos, previous_offset,
                    previous_sections, shift_operations, opk, shifted, disk0, last,
                    visited >>
    /\ UNCHANGED moves
    /\ UNCHANGED auxVars

\* RegionFile::close: the writer is flushed, the file stays open.  (When
\* the flush fails close returns the error and what was pending stays
\* pending: nothing changes.)  No caller in src/ uses it; it is open to
\* the caller of scan_chunks once that has returned.
Close ==
    /\ pc \in {"done", "failed"}
    /\ disk' = Flush(disk, wbuf)
    /\ wbuf' = << >>
    /\ UNCHANGED << opts, length, locations, entries, pos, previous_offset,
                    previous_sections, statistic, shift_operations, opk, shifted, pc,
                    faults, disk0, last, visited, ioerr, tableWrites >>
    /\ UNCHANGED moves
    /\ UNCHANGED auxVars

\* The RegionFile is dropped by its caller: the BufWriter flushes what is
\* pending.
DropFile ==
    /\ pc \in {"done", "failed"}
    /\ disk' = Flush(disk, wbuf)
    /\ wbuf' = << >>
    /\ pc' = IF pc = "done" THEN "closed" ELSE "closedFailed"
    /\ UNCHANGED << opts, length, locations, entries, pos, previous_offset,
                    previous_sections, statistic, shift_operations, opk, shifted,
                    faults, disk0, last, visited, ioerr, tableWrites >>
    /\ UNCHANGED moves
    /\ UNCHANGED auxVars

\* ------------------------------------------------------------------------
\* Specifications
\* ------------------------------------------------------------------------

\* The variables of the file scan while another part of the program is
\* looked at on its own.
ScanIdle ==
    /\ opts = [fix |-> FALSE, fix_delete |-> FALSE]
    /\ disk = << >>
    /\ disk0 = << >>
    /\ wbuf = << >>
    /\ length = 0
    /\ locations = << >>
    /\ entries = << >>
    /\ pos = 1
    /\ previous_offset = 2
    /\ previous_sections = 0
    /\ statistic = NewStatistics
    /\ shift_operations = << >>
    /\ opk = 0
    /\ shifted = 0
    /\ pc = "idle"
    /\ faults = 0
    /\ last = NoEntry
    /\ visited = << >>
    /\ ioerr = {}
    /\ tableWrites = 0
    /\ moves = << >>

LocIdle == codec = [pc |-> "idle", bytes |-> << >>, inner |-> << >>, out |-> << >>]

NbtIdle == nbt = [NBTReaderNew(<< >>) EXCEPT !.pc = "idle"]

AggIdle ==
    agg = [pc |-> "idle", fix_delete |-> FALSE, files |-> << >>,
           parts |-> << >>, removed |-> {}, result |-> NewStatistics]

ChkIdle ==
    chk = [pc |-> "idle", sections |-> 0, length |-> 0, fix |-> FALSE,
           stat |-> NewStatistics, entry |-> << 0, 0 >>]

GridIdle == grid = [pc |-> "idle", x |-> 0, z |-> 0, index |-> 0]

EstIdle == est = [pc |-> "idle", inner |-> << >>, size |-> 0]

\* A chunk before validate_nbt_data is called on it (see the section on
\* Chunk::validate_nbt_data below for its fields).
NoChunk ==
    [ compression_type |-> 0, inflate |-> "ok", parse |-> "ok", level |-> "absent",
      fields |-> {} ]

ValIdle == val = [pc |-> "idle", chunk |-> NoChunk, result |-> [kind |-> "none", tag |-> ""]]

\* The file is scanned for the first time.
FirstPass == pass = [n |-> 1, found |-> NewStatistics]

\* The scan of one region file, I/O faults included.
Init ==
    /\ InitScan
    /\ LocIdle /\ NbtIdle /\ AggIdle /\ ChkIdle /\ GridIdle /\ EstIdle /\ ValIdle /\ FirstPass

Next ==
    \/ ScanEntry(FALSE)
    \/ ScanEntry(TRUE)
    \/ ScanSeekFails
    \/ ScanChunkFails
    \/ ReturnUnrepaired
    \/ BeginRepair
    \/ ShiftStep
    \/ ShiftFails
    \/ WriteTable
    \/ WriteTableFails
    \/ Close
    \/ DropFile

Spec == Init /\ [][Next]_vars

\* ------------------------------------------------------------------------
\* The location table codec: Locations::from_bytes, Locations::to_bytes
\* ------------------------------------------------------------------------

\* Cells of the tables this specification parses (1024 in the program).
LocCells == 2

\* The byte values the table bytes are drawn from.
ByteVals == {0, 1, 255}

InitLoc ==
    /\ ScanIdle /\ NbtIdle /\ AggIdle /\ ChkIdle /\ GridIdle /\ EstIdle /\ ValIdle /\ FirstPass
    /\ \E bytes \in [1 .. 4 * LocCells -> ByteVals] :
           codec = [pc |-> "raw", bytes |-> bytes, inner |-> << >>, out |-> << >>]

\* RegionFile::new: the table is parsed.
LocParse ==
    /\ codec.pc = "raw"
    /\ codec' = [codec EXCEPT !.pc = "parsed", !.inner = from_bytes(codec.bytes)]
    /\ UNCHANGED << scanVars, nbt, agg, chk, grid, est, val, pass >>

\* The tail of scan_chunks: the table is serialized.
LocSerialize ==
    /\ codec.pc = "parsed"
    /\ codec' = [codec EXCEPT !.pc = "serialized", !.out = to_bytes(codec.inner)]
    /\ UNCHANGED << scanVars, nbt, agg, chk, grid, est, val, pass >>

NextLoc == LocParse \/ LocSerialize

SpecLoc == InitLoc /\ [][NextLoc]_vars


\* ------------------------------------------------------------------------
\* The NBT decoder: NBTReader::parse on payloads of nested compounds
\* ------------------------------------------------------------------------

\* The deepest nesting of the payloads decoded.
NestBound == 101

\* s repeated k times.
RECURSIVE Repeat(_, _)
Repeat(s, k) == IF k = 0 THEN << >> ELSE s \o Repeat(s, k - 1)

\* Compounds nested d deep, the root included: d times the tag 10 with an
\* empty name, then d times the end tag.
NestedCompounds(d) == Repeat(<< 10, 0, 0 >>, d) \o Repeat(<< 0 >>, d)

\* Compounds nested d deep, each one below the root the only element of a
\* list: tag 9, an empty name, the element tag 10, the length 1.
NestedLists(d) ==
    << 10, 0, 0 >> \o Repeat(<< 9, 0, 0, 10, 0, 0, 0, 1 >>, d - 1) \o Repeat(<< 0 >>, d)

\* Lists nested d deep in the root compound, each one below the first the
\* only element of the list around it, the innermost empty: tag 9 and an
\* empty name, then d list heads (element tag, length).
ListsOfLists(d) ==
    << 10, 0, 0, 9, 0, 0 >> \o Repeat(<< 9, 0, 0, 0, 1 >>, d - 1)
        \o << 0, 0, 0, 0, 0 >> \o << 0 >>

\* Payloads of other shapes: every kind of value; a truncated tree; a
\* wrong root tag; an unknown tag; a name that is not UTF-8; a list whose
\* element tag is unknown; nothing at all; names of two, three and four
\* byte UTF-8 sequences; names that are cut, overlong or a surrogate; a
\* long, a list length, a string and an int array cut short.
OtherPayloads ==
    { << 10, 0, 0,
         1, 0, 1, 97, 7,
         2, 0, 0, 1, 2,
         3, 0, 0, 0, 0, 0, 9,
         4, 0, 0, 0, 0, 0, 0, 0, 0, 0, 9,
         5, 0, 0, 0, 0, 0, 0,
         6, 0, 0, 0, 0, 0, 0, 0, 0, 0, 0,
         7, 0, 0, 0, 0, 0, 2, 5, 6,
         8, 0, 0, 0, 1, 98,
         9, 0, 0, 3, 0, 0, 0, 2, 0, 0, 0, 1, 0, 0, 0, 2,
         9, 0, 0, 0, 0, 0, 0, 3,
         9, 0, 0, 9, 0, 0, 0, 1, 1, 0, 0, 0, 1, 4,
         11, 0, 0, 0, 0, 0, 1, 0, 0, 0, 7,
         12, 0, 0, 0, 0, 0, 1, 0, 0, 0, 0, 0, 0, 0, 7,
         0 >>,
      << 10, 0, 0, 10, 0, 0 >>,
      << 10 >>,
      << 9, 0, 0, 0 >>,
      << 10, 0, 0, 13, 0, 0, 0 >>,
      << 10, 0, 0, 1, 0, 1, 255, 0, 0 >>,
      << 10, 0, 0, 9, 0, 0, 13, 0, 0, 0, 0, 0 >>,
      << 10, 0, 0, 7, 0, 0, 0, 0, 0, 4, 1 >>,
      << >>,
      << 10, 0, 0, 1, 0, 2, 195, 169, 5, 0 >>,
      << 10, 0, 0, 1, 0, 3, 226, 130, 172, 5, 0 >>,
      << 10, 0, 0, 1, 0, 4, 240, 159, 152, 128, 5, 0 >>,
      << 10, 0, 0, 1, 0, 2, 195, 40, 5, 0 >>,
      << 10, 0, 0, 1, 0, 1, 195, 5, 0 >>,
      << 10, 0, 0, 1, 0, 2, 192, 128, 5, 0 >>,
      << 10, 0, 0, 1, 0, 3, 237, 160, 128, 5, 0 >>,
      << 10, 0, 0, 4, 0, 0, 1, 2, 3, 4, 5, 6, 7 >>,
      << 10, 0, 0, 9, 0, 0, 5, 0, 0 >>,
      << 10, 0, 0, 8, 0, 0, 0, 2, 97 >>,
      << 10, 0, 0, 11, 0, 0, 0, 0, 0, 2, 0, 0, 0, 1, 0, 0 >> }

Payloads ==
    { NestedCompounds(d) : d \in 1 .. NestBound }
        \cup { NestedLists(d) : d \in 1 .. NestBound }
        \cup { ListsOfLists(d) : d \in 1 .. NestBound }
        \cup OtherPayloads

InitNBT ==
    /\ ScanIdle /\ LocIdle /\ AggIdle /\ ChkIdle /\ GridIdle /\ EstIdle /\ ValIdle /\ FirstPass
    /\ \E inp \in Payloads : nbt = NBTReaderNew(inp)

\* NBTReader::parse is called.
NbtStart ==
    /\ nbt.pc = "start"
    /\ nbt' = NbtParse(nbt)
    /\ UNCHANGED << scanVars, codec, agg, chk, grid, est, val, pass >>

\* The innermost parse_compound or parse_list goes through its loop once.
NbtStep ==
    /\ nbt.pc = "run"
    /\ nbt' = NbtRound(nbt)
    /\ UNCHANGED << scanVars, codec, agg, chk, grid, est, val, pass >>

NextNBT == NbtStart \/ NbtStep

SpecNBT == InitNBT /\ [][NextNBT]_vars


\* ------------------------------------------------------------------------
\* WorldFolder::scan_files: the per-file results merged by rayon's reduce
\* ------------------------------------------------------------------------

\* Region files of the world folder.
MaxFiles == 3

\* A statistic with the given counters, the others zero.
StatOf(total, bad_length, unused, shrunk) ==
    [NewStatistics EXCEPT !.total_chunks = total, !.invalid_length = bad_length,
                          !.unused_space = unused, !.shrunk_size = shrunk]

\* What opening and scanning one region file comes to: RegionFile::new
\* returned an error (opened is FALSE), scan_chunks returned an error, or
\* the scan gave a statistic (ok is TRUE); shrunk_size is estimated_size,
\* set by scans that repair.
FileOutcomes ==
    { [ok |-> FALSE, opened |-> FALSE, stat |-> NewStatistics],
      [ok |-> FALSE, opened |-> TRUE, stat |-> NewStatistics],
      [ok |-> TRUE, opened |-> TRUE, stat |-> StatOf(1, 0, 0, 0)],
      [ok |-> TRUE, opened |-> TRUE, stat |-> StatOf(1, 1, 0, 3 * BLOCK_SIZE)],
      [ok |-> TRUE, opened |-> TRUE, stat |-> StatOf(2, 0, 1, 4 * BLOCK_SIZE)] }

\* A task of the parallel iterator: the paths lo .. hi of the slice, which
\* its folder goes through in order, starting from the identity of the
\* reduce, ScanStatistics::new().  path tells where the task stands in the
\* tree of splits (0 for a left half, 1 for a right half); at is the path
\* the closure of filter_map is called on next; open says that the closure
\* is under way and has opened its file; st is what the folder holds.
AggTask(path, lo, hi) ==
    [path |-> path, lo |-> lo, hi |-> hi, at |-> lo, open |-> FALSE, st |-> NewStatistics]

InitAgg ==
    /\ ScanIdle /\ LocIdle /\ NbtIdle /\ ChkIdle /\ GridIdle /\ EstIdle /\ ValIdle /\ FirstPass
    /\ \E n \in 0 .. MaxFiles : \E files \in [1 .. n -> FileOutcomes] :
       \E fd \in BOOLEAN :
           agg = [pc |-> "reduce", fix_delete |-> fd, files |-> files,
                  parts |-> << AggTask(<< >>, 1, n) >>, removed |-> {},
                  result |-> NewStatistics]

\* The sequence s with the elements i .. j replaced by those of t.
Spliced(s, i, j, t) == SubSeq(s, 1, i - 1) \o t \o SubSeq(s, j + 1, Len(s))

\* A task that has not called the closure yet is split in two at the
\* middle of its paths; the halves run as tasks of their own, which the
\* thread pool may run at the same time.
AggSplit ==
    /\ agg.pc = "reduce"
    /\ \E i \in 1 .. Len(agg.parts) :
       LET t   == agg.parts[i]
           mid == t.lo + ((t.hi - t.lo + 1) \div 2)
       IN  /\ t.at = t.lo /\ ~t.open
           /\ t.hi > t.lo
           /\ agg' = [agg EXCEPT !.parts =
                        Spliced(@, i, i, << AggTask(Append(t.path, 0), t.lo, mid - 1),
                                            AggTask(Append(t.path, 1), mid, t.hi) >>)]
    /\ UNCHANGED << scanVars, codec, nbt, chk, grid, est, val, pass >>

\* The file a task handles is removed: RegionFile::new failed,
\* fix_delete is set, and fs::remove_file succeeded (unlinked says whether
\* it did).
RemovesFile(f, fix_delete, unlinked) == ~f.opened /\ fix_delete /\ unlinked

\* The closure is called on the next path of a task and opens the file: a
\* file that cannot be opened is removed with fix_delete and the closure
\* returns None, which filter_map drops.
AggOpen ==
    /\ agg.pc = "reduce"
    /\ \E i \in 1 .. Len(agg.parts) : \E unlinked \in BOOLEAN :
       LET t == agg.parts[i]
       IN  /\ t.at <= t.hi /\ ~t.open
           /\ agg' = IF agg.files[t.at].opened
                     THEN [agg EXCEPT !.parts[i].open = TRUE]
                     ELSE [agg EXCEPT !.parts[i].at = @ + 1,
                                      !.removed =
                                          IF RemovesFile(agg.files[t.at], agg.fix_delete, unlinked)
                                          THEN @ \cup {t.at}
                                          ELSE @]
    /\ UNCHANGED << scanVars, codec, nbt, chk, grid, est, val, pass >>

\* The closure of a task scans the file it has opened and returns: a scan
\* that failed gives None, which filter_map drops, and the folder adds the
\* statistic of a scan that succeeded to what it holds.
AggScan ==
    /\ agg.pc = "reduce"
    /\ \E i \in 1 .. Len(agg.parts) :
       LET t == agg.parts[i]
           f == agg.files[t.at]
       IN  /\ t.open
           /\ agg' = [agg EXCEPT !.parts[i].open = FALSE,
                                 !.parts[i].at = @ + 1,
                                 !.parts[i].st = IF f.ok THEN StatAdd(@, f.stat) ELSE @]
    /\ UNCHANGED << scanVars, codec, nbt, chk, grid, est, val, pass >>

\* The two halves of a split are done: their results are added, the left
\* one first, and stand for the task that was split.
AggJoin ==
    /\ agg.pc = "reduce"
    /\ \E i \in 1 .. Len(agg.parts) - 1 :
       LET l == agg.parts[i]
           r == agg.parts[i + 1]
       IN  /\ l.at > l.hi /\ r.at > r.hi
           /\ l.path # << >> /\ r.path # << >>
           /\ SubSeq(l.path, 1, Len(l.path) - 1) = SubSeq(r.path, 1, Len(r.path) - 1)
           /\ l.path[Len(l.path)] = 0 /\ r.path[Len(r.path)] = 1
           /\ agg' = [agg EXCEPT !.parts =
                        Spliced(@, i, i + 1,
                                << [path |-> SubSeq(l.path, 1, Len(l.path) - 1),
                                    lo |-> l.lo, hi |-> r.hi, at |-> r.hi + 1,
                                    open |-> FALSE, st |-> StatAdd(l.st, r.st)] >>)]
    /\ UNCHANGED << scanVars, codec, nbt, chk, grid, est, val, pass >>

\* The task of the whole slice is done: scan_files returns its result.
AggFinish ==
    /\ agg.pc = "reduce"
    /\ Len(agg.parts) = 1
    /\ agg.parts[1].at > agg.parts[1].hi
    /\ agg' = [agg EXCEPT !.pc = "reduced", !.result = agg.parts[1].st]
    /\ UNCHANGED << scanVars, codec, nbt, chk, grid, est, val, pass >>

NextAgg == AggSplit \/ AggOpen \/ AggScan \/ AggJoin \/ AggFinish

SpecAgg == InitAgg /\ [][NextAgg]_vars

\* ------------------------------------------------------------------------
\* The length check of scan_chunk over the lengths a header can hold
\* ------------------------------------------------------------------------

\* Declared sector counts (the count is one byte of the table).
SectionSamples == {0, 1, 2, 3, 127, 128, 129, 254, 255}

\* Lengths a record header can hold, around every multiple of the sector
\* size that matters and around the two caps.
LengthSamples ==
    { 0, 1, 10, 4091, 4092, 4093, 8188, 8189, 520187, 520188, 520189,
      524284, 524285, 524288, 524289, 1044476, 1044477, 1048575, 1048576,
      2147479548 }

\* A file of three sectors whose sector 2 starts with the header of a
\* record of the given length, and the table entry of cell 0 pointing at
\* it.
OneRecordFile(len) ==
    [ s \in 0 .. 2 |->
        IF s = 0 THEN TableSector(<< >>)
        ELSE IF s = 1 THEN TimestampSector
        ELSE DataSector(2, [len |-> len, tag |-> 2, pl |-> "ok", x |-> 0]) ]

InitChk ==
    /\ ScanIdle /\ LocIdle /\ NbtIdle /\ AggIdle /\ GridIdle /\ EstIdle /\ ValIdle /\ FirstPass
    /\ \E n \in SectionSamples : \E len \in LengthSamples : \E fix \in BOOLEAN :
           chk = [pc |-> "entry", sections |-> n, length |-> len, fix |-> fix,
                  stat |-> NewStatistics, entry |-> << 2, n >>]

\* The header of the record is read: whatever length it holds, the read
\* succeeds.
ChkHeader ==
    /\ chk.pc = "entry"
    /\ from_buf_reader(OneRecordFile(chk.length), 2, FALSE).ok
    /\ chk' = [chk EXCEPT !.pc = "read"]
    /\ UNCHANGED << scanVars, codec, nbt, agg, grid, est, val, pass >>

\* scan_chunk is called for the record.
ChkScan ==
    /\ chk.pc = "read"
    /\ LET d == OneRecordFile(chk.length)
           r == scan_chunk(0, 2, chk.sections, from_buf_reader(d, 2, FALSE),
                           chk.stat, << chk.entry >>, d, << >>,
                           [fix |-> chk.fix, fix_delete |-> FALSE])
       IN  chk' = [chk EXCEPT !.pc = "scanned", !.stat = r.stat, !.entry = r.loc[1]]
    /\ UNCHANGED << scanVars, codec, nbt, agg, grid, est, val, pass >>

NextChk == ChkHeader \/ ChkScan

SpecChk == InitChk /\ [][NextChk]_vars


\* ------------------------------------------------------------------------
\* Properties of the scan of one region file (Spec)
\* ------------------------------------------------------------------------

\* The location table the file held at open, and the one it holds once
\* the pending writes are out.
Table0 == from_bytes(disk0[0].tbl)

Persisted == from_bytes(File[0].tbl)

\* The record cell k pointed at at open was well-formed: its header can be
\* read, its compression type is known, its payload decodes and validates,
\* and the file holds all of its sectors.
WellFormed0(k) ==
    LET e == Table0[k]
    IN  /\ e[1] >= 2
        /\ from_buf_reader(disk0, e[1], FALSE).ok
        /\ disk0[e[1]].tag \in {0, 1, 2}
        /\ disk0[e[1]].pl = "ok"
        /\ RecordWhole(disk0, e[1])
        /\ e[1] + ChunkSections(disk0[e[1]].len) <= FileSectors

\* The sectors cell k points at now hold what the sectors of its record
\* held at open.
Intact(k) ==
    LET e0 == Table0[k]
        e1 == Persisted[k]
    IN  \A j \in 0 .. ChunkSections(disk0[e0[1]].len) - 1 :
            /\ e1[1] + j \in DOMAIN File
            /\ File[e1[1] + j] = disk0[e0[1] + j]

\* The sectors cell k laid claim to at open: those its entry declares and
\* those its record needs.
Extent0(k) ==
    LET e == Table0[k]
        n == IF from_buf_reader(disk0, e[1], FALSE).ok
             THEN Max(e[2], ChunkSections(disk0[e[1]].len))
             ELSE e[2]
    IN  IF e[1] >= 2 THEN e[1] .. (e[1] + n - 1) ELSE {}

Disjoint0 == \A k, m \in 1 .. NumCells : k # m => Extent0(k) \cap Extent0(m) = {}

\* C1: after scan_chunks has returned successfully, every entry of the
\* persisted table that is still valid and whose record was well-formed at
\* open points at sectors holding the bytes of that record.  Stated here
\* for the scans that met no I/O error, on files whose records did not
\* overlap at open.
C1_WellFormedPreserved ==
    (pc \in {"done", "closed"} /\ ioerr = {} /\ Disjoint0)
        => \A k \in 1 .. NumCells :
               (Persisted[k][1] >= 2 /\ WellFormed0(k)) => Intact(k)

\* C4: a scan with neither fix nor fix_delete writes nothing: the file is
\* the one opened, no write is pending, the table was never written.
C4_NoWriteWithoutFix ==
    (pc # "idle" /\ ~opts.fix /\ ~opts.fix_delete)
        => disk = disk0 /\ wbuf = << >> /\ tableWrites = 0

\* A scan without fix modes is over and has counted an invalid
\* compression type, an invalid length and unused space.
C4_Witness ==
    /\ pc = "closed"
    /\ ~opts.fix /\ ~opts.fix_delete
    /\ statistic.invalid_compression_method > 0
    /\ statistic.invalid_length > 0
    /\ statistic.unused_space > 0

C6_OrderedVisitsTableLast ==
    /\ \A i \in 1 .. Len(visited) - 1 : visited[i] <= visited[i + 1]
    /\ pc \in {"scan", "shift"} => tableWrites = 0
    /\ tableWrites > 0
           => /\ tableWrites = 1
              /\ pc \in {"done", "closed", "failed", "closedFailed"}
              /\ pos > Len(entries)
              /\ opk > Len(shift_operations)
              /\ Len(visited) = Len(entries)

\* A repairing scan is over: it visited two entries that stand in the
\* table against the order of their offsets, relocated, and wrote the
\* table.
C6_Witness ==
    /\ pc = "closed"
    /\ tableWrites = 1
    /\ Len(visited) = 2
    /\ visited[1] < visited[2]
    /\ Table0[1][1] > Table0[2][1]
    /\ shift_operations # << >>

\* The counters that tell of an attempt to decode the payload.
DecodeFailures(st) == st.corrupted_compression + st.corrupted_nbt + st.missing_nbt

\* C9: for the record scanned last, a compression type other than 0, 1
\* and 2 raises invalid_compression_method by one and none of
\* corrupted_compression, corrupted_nbt, missing_nbt.
C9_UnknownTagNotDecoded ==
    (last.kind = "scanned" /\ last.tag \notin {0, 1, 2} /\ pc = "scan")
        => /\ statistic.invalid_compression_method
                  = last.stat.invalid_compression_method + 1
           /\ DecodeFailures(statistic) = DecodeFailures(last.stat)

\* C10: when the scan of a record has counted an invalid compression type
\* and fix is set, the file differs from the file before that record was
\* scanned in the tag byte of the record alone, which is 1: its length
\* field, its payload and every other sector are as they were.
C10_TagFixTouchesTagOnly ==
    ( /\ last.kind = "scanned"
      /\ pc = "scan"
      /\ opts.fix
      /\ statistic.invalid_compression_method
             = last.stat.invalid_compression_method + 1 )
        => File = [last.file EXCEPT ![last.offset].tag = 1,
                                    ![last.offset].fixed = TRUE]

\* A record with compression type 9 has just been scanned with fix, after
\* another record whose tag had been rewritten too.
C10_Witness ==
    /\ last.kind = "scanned"
    /\ pc = "scan"
    /\ opts.fix
    /\ last.tag = 9
    /\ statistic.invalid_compression_method = 2
    /\ File[last.offset].tag = 1
    /\ File[last.offset].len = 10


\* ------------------------------------------------------------------------
\* Properties of the location table codec (SpecLoc)
\* ------------------------------------------------------------------------

\* C2: to_bytes(from_bytes(bytes)) is bytes; from_bytes gives one entry
\* for every four bytes, in table order, its offset the big-endian number
\* of the first three bytes and its count the fourth.
C2_TableRoundTrip ==
    /\ codec.pc \in {"parsed", "serialized"}
           => /\ Len(codec.inner) = LocCells
              /\ \A k \in 1 .. LocCells :
                     codec.inner[k] =
                         << codec.bytes[4 * k - 3] * 65536 + codec.bytes[4 * k - 2] * 256
                                + codec.bytes[4 * k - 1],
                            codec.bytes[4 * k] >>
    /\ codec.pc = "serialized" => codec.out = codec.bytes

\* A table was parsed and serialized whose first entry has three different
\* offset bytes and whose second entry differs from the first.
C2_Witness ==
    /\ codec.pc = "serialized"
    /\ codec.bytes[1] = 255 /\ codec.bytes[2] = 0 /\ codec.bytes[3] = 1
    /\ codec.bytes[4] = 255
    /\ codec.bytes[5] = 0 /\ codec.bytes[7] = 255
    /\ codec.inner[1] = << 16711681, 255 >>

\* ------------------------------------------------------------------------
\* Properties of the merge of the per-file statistics (SpecAgg)
\* ------------------------------------------------------------------------

\* The sum, counter by counter, of the statistics of the files that gave
\* one: what the merge comes to in whatever order and grouping if the
\* addition is associative and commutative over all ten counters with the
\* all-zero statistic as its identity.
RECURSIVE CounterSum(_, _, _)
CounterSum(files, field, k) ==
    IF k = 0 THEN 0
    ELSE CounterSum(files, field, k - 1)
             + (IF files[k].ok THEN files[k].stat[field] ELSE 0)

FieldwiseSum(files) == [ f \in DOMAIN NewStatistics |-> CounterSum(files, f, Len(files)) ]

\* C3: the aggregate scan_files returns is the counter-by-counter sum of
\* the per-file statistics, shrunk_size included, whatever the order of
\* the files and the grouping of the merge.
C3_MergeIsFieldwiseSum ==
    agg.pc = "reduced" => agg.result = FieldwiseSum(agg.files)

\* ------------------------------------------------------------------------
\* Properties of the NBT decoder (SpecNBT)
\* ------------------------------------------------------------------------

\* C7: compounds nested up to MAX_RECURSION deep, the root included,
\* decode; nested one deeper they fail with RecursionError; and every
\* decode that succeeds leaves the recursion counter at 0, where new()
\* put it.
C7_DepthBound ==
    /\ nbt.pc \in {"ok", "err"}
           => \A d \in 1 .. NestBound :
                  nbt.inp = NestedCompounds(d)
                      => IF d <= 100
                         THEN nbt.pc = "ok"
                         ELSE nbt.pc = "err" /\ nbt.err = "RecursionError"
    /\ nbt.pc = "ok" => nbt.recursion = 0 /\ nbt.stack = << >>

\* The payload of compounds nested exactly 100 deep has been decoded to
\* its last byte.
C7_Witness ==
    /\ nbt.pc = "ok"
    /\ nbt.inp = NestedCompounds(100)
    /\ nbt.at = Len(nbt.inp) + 1
    /\ nbt.recursion = 0

\* ------------------------------------------------------------------------
\* Properties of the length check (SpecChk)
\* ------------------------------------------------------------------------

\* The least number of sectors that hold n bytes.
SectorsNeeded(n) ==
    CHOOSE q \in 0 .. (n \div BLOCK_SIZE) + 1 : (q - 1) * BLOCK_SIZE < n /\ n <= q * BLOCK_SIZE

\* C8: for a record whose header is read, invalid_length is raised (by
\* one) exactly when the declared sector count differs from the ceiling of
\* (length + 4) / 4096 or the length is 1,048,576 or more, and with fix
\* the entry then gets that ceiling as its count; 4091 bytes need one
\* sector, 4093 two.
C8_InvalidLengthExact ==
    /\ chk.pc = "scanned"
           => /\ chk.stat.invalid_length \in {0, 1}
              /\ chk.stat.invalid_length = 1
                     <=> \/ chk.sections # SectorsNeeded(chk.length + 4)
                         \/ chk.length >= 1048576
              /\ (chk.stat.invalid_length = 1 /\ chk.fix)
                     => chk.entry = << 2, SectorsNeeded(chk.length + 4) >>
              /\ (chk.stat.invalid_length = 0 \/ ~chk.fix)
                     => chk.entry = << 2, chk.sections >>
    /\ ChunkSections(4091) = 1
    /\ ChunkSections(4093) = 2


\* ------------------------------------------------------------------------
\* Further properties of the scan of one region file (Spec)
\* ------------------------------------------------------------------------

\* The cells whose entry was valid at open.
ValidCells0 == { k \in 1 .. NumCells : Table0[k][1] >= 2 }

\* The record header cell k pointed at at open.
Header0(k) == disk0[Table0[k][1]]

\* Cell k, valid at open, lies within the file by its declared count, and
\* its record is well-formed: the length is not 0, the compression type is
\* 0, 1 or 2, the file holds the whole record, the payload decodes and
\* validates, and its coordinates map to cell k (table index k - 1).
InBounds0(k) == (Table0[k][1] + Table0[k][2]) * BLOCK_SIZE <= FileSectors * BLOCK_SIZE

Sound0(k) ==
    /\ InBounds0(k)
    /\ Header0(k).len > 0
    /\ Header0(k).tag \in {0, 1, 2}
    /\ Header0(k).pl = "ok"
    /\ RecordWhole(disk0, Table0[k][1])
    /\ (Header0(k).x % 32) = k - 1

\* The declared count of cell k is the one its record needs.
CountRight0(k) == Table0[k][2] = SectorsNeeded(Header0(k).len + 4)

\* The valid entries lie end to end from sector 2 on by their declared
\* counts: no two start at the same sector, and each starts at sector 2 or
\* where another one ends.
Contiguous0 ==
    /\ \A k, m \in ValidCells0 : k # m => Table0[k][1] # Table0[m][1]
    /\ \A k \in ValidCells0 :
           \/ Table0[k][1] = 2
           \/ \E m \in ValidCells0 : Table0[m][1] + Table0[m][2] = Table0[k][1]

\* C11: after a scan with fix of a file whose valid entries are sound and
\* contiguous (so that wrong declared counts are its only anomalies), the
\* persisted table holds for every valid entry its offset of the open and
\* the count its record needs, every other cell is as it was, and every
\* sector behind the location table holds what it held at open.
C11_OnlyCountsRewritten ==
    ( /\ pc \in {"done", "closed"}
      /\ opts.fix
      /\ ioerr = {}
      /\ Contiguous0
      /\ \A k \in ValidCells0 : Sound0(k) )
        => /\ \A k \in 1 .. NumCells :
                  Persisted[k] =
                      IF k \in ValidCells0
                      THEN << Table0[k][1], SectorsNeeded(Header0(k).len + 4) >>
                      ELSE Table0[k]
           /\ DOMAIN File = DOMAIN disk0
           /\ \A s \in DOMAIN disk0 \ {0} : File[s] = disk0[s]
           /\ statistic.invalid_length
                  = Cardinality({ k \in ValidCells0 : ~CountRight0(k) })

\* A scan with fix is over on a file of two sound, contiguous records, one
\* declared with a sector too many and one with a sector too few.
C11_Witness ==
    /\ pc = "closed"
    /\ opts.fix
    /\ ioerr = {}
    /\ Contiguous0
    /\ ValidCells0 = 1 .. NumCells
    /\ \A k \in ValidCells0 : Sound0(k)
    /\ \E k \in ValidCells0 : Table0[k][2] > SectorsNeeded(Header0(k).len + 4)
    /\ \E k \in ValidCells0 : Table0[k][2] < SectorsNeeded(Header0(k).len + 4)
    /\ Persisted # Table0


\* The record scanned last decoded and validated, and its coordinates map
\* to another cell than the one pointing at it.
LastMisplaced ==
    /\ last.kind = "scanned"
    /\ last.tag \in {0, 1, 2}
    /\ last.file[last.offset].pl = "ok"
    /\ (last.file[last.offset].x % 32) # last.index

\* C12: a record that decodes but stands behind the wrong cell raises
\* invalid_chunk_pointer by one, and with fix_delete its cell is (0, 0),
\* in the table in memory once the record is scanned and in the persisted
\* table once the scan is over, whatever fix is and whatever else is wrong
\* with the record.
C12_MisplacedEntryZeroed ==
    LastMisplaced
        => /\ pc = "scan"
                  => statistic.invalid_chunk_pointer
                         = last.stat.invalid_chunk_pointer + 1
           /\ (opts.fix_delete /\ pc = "scan")
                  => locations[last.index + 1] = << 0, 0 >>
           /\ (opts.fix_delete /\ pc \in {"done", "closed"})
                  => Persisted[last.index + 1] = << 0, 0 >>


\* The valid cells whose record lay below that of cell k at open, the
\* sector where the record before that of cell k ended (2 for the first),
\* and the unused sectors between the two.
Before0(k) == { m \in ValidCells0 : Table0[m][1] < Table0[k][1] }

PrevEnd0(k) ==
    IF Before0(k) = {} THEN 2
    ELSE LET ends == { Table0[m][1] + Table0[m][2] : m \in Before0(k) }
         IN  CHOOSE e \in ends : \A f \in ends : f <= e

Gap0(k) == Table0[k][1] - PrevEnd0(k)

\* The unused sectors in front of the records of the file at open.
GapSectors0 ==
    LET F[i \in 0 .. NumCells] ==
            IF i = 0 THEN 0
            ELSE F[i - 1] + (IF i \in ValidCells0 THEN Gap0(i) ELSE 0)
    IN  F[NumCells]

\* The sector the record of cell k starts at when the records are packed
\* from sector 2 on in the order of their offsets.
Packed0(k) ==
    LET F[i \in 0 .. NumCells] ==
            IF i = 0 THEN 2
            ELSE F[i - 1] + (IF i \in Before0(k) THEN Table0[i][2] ELSE 0)
    IN  F[NumCells]

\* The file at open holds only sound records with the right declared
\* counts that do not overlap.
WellFormedFile0 ==
    /\ \A k \in ValidCells0 : Sound0(k) /\ CountRight0(k)
    /\ Disjoint0

\* C13: after a scan with fix of a file of well-formed records that do not
\* overlap, unused_space is 4096 times the number of unused sectors in
\* front of the records, every record starts where the one before it ends
\* (the first at sector 2), the persisted entry of each holds that offset
\* and its count, and the sectors it points at hold the record.
C13_GapsClosed ==
    ( /\ pc \in {"done", "closed"}
      /\ opts.fix
      /\ ioerr = {}
      /\ WellFormedFile0 )
        => /\ statistic.unused_space = BLOCK_SIZE * GapSectors0
           /\ \A k \in ValidCells0 :
                  /\ Persisted[k] = << Packed0(k), Table0[k][2] >>
                  /\ Intact(k)

\* A scan with fix is over on a well-formed file of two records, a
\* two-sector one behind an unused sector and another right behind it:
\* both were moved.
C13_Witness ==
    /\ pc = "closed"
    /\ opts.fix
    /\ ioerr = {}
    /\ WellFormedFile0
    /\ ValidCells0 = 1 .. NumCells
    /\ \A k \in ValidCells0 : Persisted[k][1] < Table0[k][1]
    /\ \E k \in ValidCells0 : Table0[k][2] = 2 /\ Gap0(k) > 0
    /\ statistic.unused_space = BLOCK_SIZE


\* The counters of a statistic that tell of an anomaly, and unused_space.
Anomalies(st) ==
    st.invalid_length + st.invalid_compression_method + st.missing_nbt
        + st.corrupted_nbt + st.corrupted_compression + st.invalid_chunk_pointer
        + st.failed_to_read + st.unused_space

LastFailed(kind) ==
    /\ last.kind = "scanned"
    /\ last.tag \in {0, 1, 2}
    /\ last.file[last.offset].pl = kind

\* What the scan of the last record added to a counter.
Raised(field) == statistic[field] - last.stat[field]

\* C15: a record whose decompression fails raises corrupted_compression
\* alone among the failure counters, one whose tree cannot be decoded
\* corrupted_nbt alone, one with a missing or malformed required field
\* missing_nbt alone, each by one; the scan loop goes on; total_chunks is
\* the number of valid entries, and a scan that ends has visited them all.
\* Only an I/O error makes scan_chunks return an error.
C15_DecodeFailureCounted ==
    /\ \A kind \in {"io", "nbt", "missing"} :
           (LastFailed(kind) /\ pc = "scan")
               => /\ Raised("corrupted_compression") = (IF kind = "io" THEN 1 ELSE 0)
                  /\ Raised("corrupted_nbt") = (IF kind = "nbt" THEN 1 ELSE 0)
                  /\ Raised("missing_nbt") = (IF kind = "missing" THEN 1 ELSE 0)
                  /\ Raised("invalid_compression_method") = 0
                  /\ Raised("invalid_chunk_pointer") = 0
                  /\ Raised("failed_to_read") = 0
    /\ pc # "idle" => statistic.total_chunks = Cardinality(ValidCells0)
    /\ pc \in {"done", "closed"} => Len(visited) = Cardinality(ValidCells0)
    /\ pc \in {"failed", "closedFailed"} => ioerr # {}

\* A scan is over that met a record whose decompression failed and then a
\* record with a missing field.
C15_Witness ==
    /\ pc = "closed"
    /\ LastFailed("missing")
    /\ statistic.corrupted_compression = 1
    /\ statistic.missing_nbt = 1
    /\ statistic.total_chunks = 2
    /\ Len(visited) = 2


\* ------------------------------------------------------------------------
\* Further properties of the merge of the per-file statistics (SpecAgg)
\* ------------------------------------------------------------------------

\* C16: scan_files returns (it always does), its result is the sum, counter
\* by counter, of the statistics of the files whose scan succeeded, and no
\* file that failed to open was removed, whatever the options.
C16_FailedFilesLeftAlone ==
    agg.pc = "reduced"
        => /\ agg.result = FieldwiseSum(agg.files)
           /\ \A i \in 1 .. Len(agg.files) : ~agg.files[i].opened => i \notin agg.removed


\* ------------------------------------------------------------------------
\* get_chunk_index over the coordinates of chunks
\* ------------------------------------------------------------------------

\* The largest magnitude of the coordinates tried.
CoordBound == 1000

\* Coordinates around the multiples of 32 and at the ends of the range.
EdgeCoords == { -CoordBound, -65, -64, -33, -32, -31, -1, 0, 1, 31, 32, 33, 64, CoordBound }

InitGrid ==
    /\ ScanIdle /\ LocIdle /\ NbtIdle /\ AggIdle /\ ChkIdle /\ EstIdle /\ ValIdle /\ FirstPass
    /\ \E a \in -CoordBound .. CoordBound : \E b \in EdgeCoords : \E swap \in BOOLEAN :
           grid = [pc |-> "call", x |-> IF swap THEN b ELSE a,
                   z |-> IF swap THEN a ELSE b, index |-> 0]

\* get_chunk_index is called on the coordinates.
GridIndex ==
    /\ grid.pc = "call"
    /\ grid' = [grid EXCEPT !.pc = "computed", !.index = get_chunk_index(grid.x, grid.z)]
    /\ UNCHANGED << scanVars, codec, nbt, agg, chk, est, val, pass >>

NextGrid == GridIndex

SpecGrid == InitGrid /\ [][NextGrid]_vars

\* C17: the index get_chunk_index gives lies in 0 .. 1023, is the same
\* 32 further in both coordinates, and is (x mod 32) + (z mod 32) * 32 with
\* the remainders taken into 0 .. 31.
C17_GridIndex ==
    grid.pc = "computed"
        => /\ grid.index \in 0 .. 1023
           /\ grid.index = get_chunk_index(grid.x + 32, grid.z + 32)
           /\ grid.index = (grid.x % 32) + (grid.z % 32) * 32

\* The index of a chunk with negative coordinates that are no multiples
\* of 32 was computed.
C17_Witness ==
    /\ grid.pc = "computed"
    /\ grid.x = -33
    /\ grid.z = -1
    /\ grid.index = 31 + 31 * 32


\* ------------------------------------------------------------------------
\* The header tables during the scan of one region file (Spec)
\* ------------------------------------------------------------------------

\* C18: the sector of the timestamp table holds at every moment of every
\* scan what it held at open, no write for it is pending, and until the
\* table write at the end of the scan the same is true of the sector of
\* the location table; that write is the only one to sector 0 (it stays
\* pending when its flush fails).
C18_HeaderTablesUntouched ==
    pc # "idle"
        => /\ File[1] = disk0[1]
           /\ disk[1] = disk0[1]
           /\ \A i \in 1 .. Len(wbuf) :
                  \/ wbuf[i].sec >= 2
                  \/ /\ tableWrites = 1
                     /\ wbuf[i] = BlockWrite(0, TableSector(to_bytes(locations)))
           /\ tableWrites = 0 => File[0] = disk0[0]
           /\ tableWrites > 0 => File[0] = TableSector(to_bytes(locations))


\* A repairing scan is over that moved a record to sector 2 and wrote a
\* changed location table; the timestamp table is as it was.
C18_Witness ==
    /\ pc = "closed"
    /\ tableWrites = 1
    /\ File[0] # disk0[0]
    /\ File[2] # disk0[2]
    /\ File[2].pl = "ok"
    /\ File[1] = disk0[1]


\* C19: once a round of the scan loop has processed an entry, whatever it
\* made of it, previous_offset and previous_sections are the offset and
\* the count the entry had in the table at open.
C19_PreviousIsLastEntry ==
    (pc = "scan" /\ last.kind \in {"scanned", "bounds", "unread"})
        => /\ previous_offset = last.offset
           /\ previous_sections = last.sections
           /\ << last.offset, last.sections >> = Table0[last.index + 1]


\* The payload of the record scanned last failed to decompress, to decode
\* or to validate.
LastUndecodable == \E kind \in {"io", "nbt", "missing"} : LastFailed(kind)

\* C20: when the payload of a record fails and fix_delete is set, with or
\* without fix, the cell of the record is (0, 0), the relocation enqueued
\* last is the one that removes the declared sectors of the record, and
\* neither the coordinate check nor the length check has counted anything
\* for it.
C20_UndecodableRemoved ==
    (pc = "scan" /\ LastUndecodable /\ opts.fix_delete)
        => /\ locations[last.index + 1] = << 0, 0 >>
           /\ shift_operations # << >>
           /\ shift_operations[Len(shift_operations)]
                  = << last.offset + last.sections, -last.sections >>
           /\ Raised("invalid_chunk_pointer") = 0
           /\ Raised("invalid_length") = 0


\* ------------------------------------------------------------------------
\* The relocations of perform_shift_operations (Spec)
\* ------------------------------------------------------------------------

\* C21: once a round of perform_shift_operations has come upon an inverted
\* range (the end before the start), scan_chunks has returned an error and
\* the location table on disk is the one of the open: it is never written.
C21_InvertedRangeAborts ==
    (\E i \in 1 .. Len(moves) : moves[i].kind = "inverted")
        => /\ pc \in {"failed", "closedFailed"}
           /\ tableWrites = 0
           /\ File[0] = disk0[0]


\* The sum of the amounts of the first k operations.
RECURSIVE AmountSum(_, _)
AmountSum(sops, k) == IF k = 0 THEN 0 ELSE AmountSum(sops, k - 1) + sops[k][2]

\* The file as the first round of perform_shift_operations found it.
FileAtRepair == moves[1].before

\* C22: the relocations are gone through in non-decreasing order of their
\* resulting position (offset + amount): the list is in that order once
\* perform_shift_operations has sorted it, and the i-th round handles its
\* i-th operation.  No round has written over a sector that a later round
\* reads: the sectors a round copies from hold what they held when the
\* first round began.
C22_AppliedInResultOrder ==
    opk >= 1
        => /\ \A i \in 1 .. Len(shift_operations) - 1 :
                  shift_operations[i][1] + shift_operations[i][2]
                      <= shift_operations[i + 1][1] + shift_operations[i + 1][2]
           /\ Len(moves) <= Len(shift_operations)
           /\ \A i \in 1 .. Len(moves) :
                  /\ moves[i].offset = shift_operations[i][1]
                  /\ moves[i].shifted = AmountSum(shift_operations, i)
                  /\ moves[i].kind = "copied"
                         => \A s \in moves[i].offset .. moves[i].end - 1 :
                                s \in DOMAIN FileAtRepair
                                    => moves[i].before[s] = FileAtRepair[s]

\* Two relocations with different resulting positions were gone through:
\* the first wrote to the file, then the second copied a sector of its
\* own.
C22_Witness ==
    /\ pc = "closed"
    /\ Len(moves) = 2
    /\ \A i \in 1 .. 2 : moves[i].kind = "copied"
    /\ shift_operations[1][1] + shift_operations[1][2]
           < shift_operations[2][1] + shift_operations[2][2]
    /\ moves[1].after # moves[1].before
    /\ moves[2].before # FileAtRepair
    /\ moves[2].after # moves[2].before


\* Round m of perform_shift_operations copied the sectors start .. end - 1
\* and nothing else: every one of them that the file held stands
\* m.shifted sectors further, a zeroed block stands for the first sector
\* of the range that lies past the end of the file if the range reaches
\* that far, and every other sector is as it was.
CopiedRange(m, start, end) ==
    /\ DOMAIN m.after = DOMAIN m.before
    /\ \A s \in DOMAIN m.after :
           m.after[s] =
               IF s - m.shifted \in start .. end - 1
               THEN IF s - m.shifted \in DOMAIN m.before THEN m.before[s - m.shifted]
                    ELSE IF s - m.shifted = Max(start, FileSize(m.before)) THEN ZeroBlock
                    ELSE m.before[s]
               ELSE m.before[s]

\* C23 as stated: the k-th relocation gone through copies the sectors from
\* its offset up to the offset of the next operation (up to max_offset for
\* the last one), to the sectors that lie lower by the sum of the amounts
\* of the operations 1 .. k.
C23_CopiesUpToNextPosition ==
    \A i \in 1 .. Len(moves) :
        moves[i].kind = "copied"
            => /\ moves[i].shifted = AmountSum(shift_operations, i)
               /\ CopiedRange(moves[i], shift_operations[i][1],
                              IF i < Len(shift_operations)
                              THEN shift_operations[i + 1][1]
                              ELSE max_offset(moves[i].loc))

\* C23 amended: the range ends at the resulting position of the next
\* operation, its offset plus its amount (at max_offset for the last one);
\* where the range reaches past the end of the file one zeroed block is
\* written for its first sector past the end and the copy ends.
C23_CopiesUpToNextResult ==
    \A i \in 1 .. Len(moves) :
        moves[i].kind = "copied"
            => /\ moves[i].shifted = AmountSum(shift_operations, i)
               /\ CopiedRange(moves[i], shift_operations[i][1],
                              IF i < Len(shift_operations)
                              THEN shift_operations[i + 1][1] + shift_operations[i + 1][2]
                              ELSE max_offset(moves[i].loc))

\* Two relocations were gone through and each moved a record: the range of
\* the first ended before the offset of the second.
C23_Witness ==
    /\ pc = "closed"
    /\ Len(moves) = 2
    /\ moves[1].kind = "copied" /\ moves[2].kind = "copied"
    /\ moves[1].offset < moves[1].end
    /\ moves[1].end < shift_operations[2][1]
    /\ moves[1].after # moves[1].before
    /\ moves[2].after # moves[2].before
    /\ moves[2].shifted = -2


\* ------------------------------------------------------------------------
\* Locations::estimated_size over location tables
\* ------------------------------------------------------------------------

\* The entries of the tables tried: absent, or an offset and a count; no
\* two records of a table start at the same sector.
SizeEntries == { << 0, 0 >> } \cup { << o, c >> : o \in 2 .. 5, c \in 1 .. 3 }

InitSize ==
    /\ ScanIdle /\ LocIdle /\ NbtIdle /\ AggIdle /\ ChkIdle /\ GridIdle /\ ValIdle /\ FirstPass
    /\ \E inner \in [1 .. NumCells -> SizeEntries] :
           /\ \A k, m \in 1 .. NumCells :
                  (k # m /\ inner[k][1] = inner[m][1]) => inner[k] = << 0, 0 >>
           /\ est = [pc |-> "table", inner |-> inner, size |-> 0]

\* The tail of scan_chunks takes shrunk_size from estimated_size.
EstimateSize ==
    /\ est.pc = "table"
    /\ est' = [est EXCEPT !.pc = "sized", !.size = estimated_size(est.inner)]
    /\ UNCHANGED << scanVars, codec, nbt, agg, chk, grid, val, pass >>

NextSize == EstimateSize

SpecSize == InitSize /\ [][NextSize]_vars

\* The largest offset + count over the entries of a table.
MaxEnd(inner) ==
    LET ends == { inner[k][1] + inner[k][2] : k \in 1 .. Len(inner) }
    IN  CHOOSE e \in ends : \A f \in ends : f <= e

\* C24: the size estimated_size gives, which a repairing scan reports as
\* shrunk_size, is 4096 times the largest offset + count over the entries
\* of the table, also when that is not the end of the entry with the
\* largest offset.
C24_ShrunkSizeIsMaxEnd ==
    est.pc = "sized" => est.size = BLOCK_SIZE * MaxEnd(est.inner)


\* ------------------------------------------------------------------------
\* Further properties of the NBT decoder (SpecNBT)
\* ------------------------------------------------------------------------

\* C25: at every point of a decode at most MAX_RECURSION calls of
\* parse_compound and parse_list are in progress, and a payload whose
\* containers nest deeper, be they compounds, compounds in lists or lists
\* in lists, ends in RecursionError.
C25_ContainersBounded ==
    /\ Len(nbt.stack) <= MAX_RECURSION
    /\ nbt.pc \in {"ok", "err"}
           => \A d \in 1 .. NestBound :
                  /\ (nbt.inp = NestedCompounds(d) /\ d > MAX_RECURSION)
                         => nbt.pc = "err" /\ nbt.err = "RecursionError"
                  /\ (nbt.inp = NestedLists(d) /\ 2 * d - 1 > MAX_RECURSION)
                         => nbt.pc = "err" /\ nbt.err = "RecursionError"
                  /\ (nbt.inp = ListsOfLists(d) /\ d + 1 > MAX_RECURSION)
                         => nbt.pc = "err" /\ nbt.err = "RecursionError"


\* ------------------------------------------------------------------------
\* Chunk::validate_nbt_data (src/chunk.rs)
\* ------------------------------------------------------------------------

\* The function of src/chunk.rs works on the payload the chunk holds in
\* nbt_raw.  A chunk is modelled by its compression type, by whether the
\* ZlibDecoder gets through the payload (inflate), by whether
\* NBTReader::parse accepts the bytes (parse), by what the decoded root
\* compound holds under "Level" (nothing, a compound, or a value of another
\* kind) and by the names the Level compound holds.

\* tags::LEVEL_TAGS, the required tags of the level tag.
LEVEL_TAGS ==
    { "xPos", "zPos", "Sections", "LastUpdate", "InhabitedTime", "Heightmaps",
      "Entities", "TileEntities", "LiquidTicks", "PostProcessing", "Status",
      "Structures" }

ValOk == [kind |-> "Ok", tag |-> ""]

ValErr(kind, tag) == [kind |-> kind, tag |-> tag]

\* Chunk::validate_nbt_data: a payload of compression type 2 is inflated,
\* the bytes are parsed, then the root must hold "Level", Level must be a
\* compound, and that compound must hold "xPos" and "zPos".
ChunkValidateNbtData(chunk) ==
    IF chunk.compression_type = 2 /\ chunk.inflate # "ok" THEN ValErr("IO", "")
    ELSE IF chunk.parse # "ok" THEN ValErr("NBTError", "")
    ELSE IF chunk.level = "absent" THEN ValErr("MissingTag", "Level")
    ELSE IF chunk.level = "compound"
         THEN IF "xPos" \notin chunk.fields THEN ValErr("MissingTag", "xPos")
              ELSE IF "zPos" \notin chunk.fields THEN ValErr("MissingTag", "zPos")
              ELSE ValOk
         ELSE ValErr("InvalidFormat", "Level")

\* The chunks validated: for every compression type, one whose payload
\* does not inflate, one whose bytes do not parse, one without Level, one
\* whose Level is no compound, and one for every set of required tags the
\* Level compound may hold.
ValChunks ==
    { [NoChunk EXCEPT !.compression_type = ct, !.inflate = "io"] : ct \in 0 .. 2 }
        \cup { [NoChunk EXCEPT !.compression_type = ct, !.parse = "nbt"] : ct \in 0 .. 2 }
        \cup { [NoChunk EXCEPT !.compression_type = ct, !.level = lv] :
                   ct \in 0 .. 2, lv \in {"absent", "other"} }
        \cup { [NoChunk EXCEPT !.compression_type = ct, !.level = "compound",
                                !.fields = fs] :
                   ct \in 0 .. 2, fs \in SUBSET LEVEL_TAGS }

InitVal ==
    /\ ScanIdle /\ LocIdle /\ NbtIdle /\ AggIdle /\ ChkIdle /\ GridIdle /\ EstIdle
    /\ FirstPass
    /\ \E c \in ValChunks : val = [pc |-> "chunk", chunk |-> c, result |-> ValErr("none", "")]

\* validate_nbt_data is called on the chunk.
ValValidate ==
    /\ val.pc = "chunk"
    /\ val' = [val EXCEPT !.pc = "validated", !.result = ChunkValidateNbtData(val.chunk)]
    /\ UNCHANGED << scanVars, codec, nbt, agg, chk, grid, est, pass >>

NextVal == ValValidate

SpecVal == InitVal /\ [][NextVal]_vars

\* The payload of the chunk validated decoded to a root compound.
Decoded(chunk) ==
    /\ chunk.compression_type = 2 => chunk.inflate = "ok"
    /\ chunk.parse = "ok"

\* C26: for a payload that decodes, validation fails with the missing-tag
\* error whenever the Level compound lacks one of the required tags of
\* LEVEL_TAGS, fails with the invalid-format error when Level is present
\* and no compound, and succeeds only when every required tag is present.
C26_RequiredTagsChecked ==
    (val.pc = "validated" /\ Decoded(val.chunk))
        => /\ (val.chunk.level = "compound" /\ ~(LEVEL_TAGS \subseteq val.chunk.fields))
                  => val.result.kind = "MissingTag"
           /\ val.chunk.level = "other" => val.result.kind = "InvalidFormat"
           /\ val.result.kind = "Ok"
                  => /\ val.chunk.level = "compound"
                     /\ LEVEL_TAGS \subseteq val.chunk.fields


\* ------------------------------------------------------------------------
\* The valid entries of the table across a scan (Spec)
\* ------------------------------------------------------------------------

\* The sectors an entry declares: [offset, offset + count) for a valid
\* entry, none for the others.
Declared(e) == IF e[1] >= 2 THEN e[1] .. (e[1] + e[2] - 1) ELSE {}

\* No two entries of a table declare a sector in common.
NoOverlap(inner) ==
    \A k, m \in 1 .. Len(inner) : k # m => Declared(inner[k]) \cap Declared(inner[m]) = {}

\* C27: if no two valid entries of the table at open overlap, then after
\* a scan, whatever the options, no two valid entries of the persisted
\* table overlap, and every entry of the persisted table is absent, (0, 0),
\* or has an offset of 2 or more.
C27_NoOverlapPreserved ==
    (pc \in {"done", "closed"} /\ NoOverlap(Table0))
        => /\ NoOverlap(Persisted)
           /\ \A k \in 1 .. NumCells : Persisted[k] = << 0, 0 >> \/ Persisted[k][1] >= 2


\* The cells of a table that hold a valid entry.
ValidCells(inner) == { k \in 1 .. Len(inner) : inner[k][1] >= 2 }

\* C28: in a scan without fix_delete, with fix or without, no entry is
\* zeroed and none becomes valid: at every moment the cells holding a valid
\* entry are those of the table at open, in the table in memory and in the
\* table on disk, and no cell that was valid holds (0, 0).
C28_NoEntryZeroedWithoutFixDelete ==
    (pc # "idle" /\ ~opts.fix_delete)
        => /\ ValidCells(locations) = ValidCells0
           /\ ValidCells(Persisted) = ValidCells0
           /\ \A k \in ValidCells0 : locations[k] # << 0, 0 >> /\ Persisted[k] # << 0, 0 >>

\* A scan with fix and without fix_delete is over: it met a record it
\* could not read and a payload that failed, moved an entry, and both
\* entries are still valid.
C28_Witness ==
    /\ pc = "closed"
    /\ opts.fix /\ ~opts.fix_delete
    /\ ValidCells0 = 1 .. NumCells
    /\ statistic.failed_to_read = 1
    /\ DecodeFailures(statistic) = 1
    /\ \E k \in 1 .. NumCells : Persisted[k][1] < Table0[k][1]
    /\ ValidCells(Persisted) = 1 .. NumCells

\* ------------------------------------------------------------------------
\* The tool run a second time on the file it left
\* ------------------------------------------------------------------------

\* The scan of the file has returned its statistic and the file is closed;
\* the tool is started again with the same options: RegionFile::new on
\* the file as it is now, followed by the first lines of scan_chunks.
Reopen ==
    /\ pc = "closed"
    /\ pass.n = 1
    /\ pass' = [n |-> 2, found |-> statistic]
    /\ LET loc == from_bytes(disk[0].tbl)
       IN  /\ disk0' = disk
           /\ length' = FileSize(disk) * BLOCK_SIZE
           /\ locations' = loc
           /\ entries' = SortEntries(valid_entries_enumerate(loc))
           /\ statistic' = [NewStatistics EXCEPT
                              !.total_chunks = Len(valid_entries_enumerate(loc))]
    /\ pos' = 1
    /\ previous_offset' = 2
    /\ previous_sections' = 0
    /\ shift_operations' = << >>
    /\ opk' = 0
    /\ shifted' = 0
    /\ pc' = "scan"
    /\ last' = NoEntry
    /\ visited' = << >>
    /\ tableWrites' = 0
    /\ moves' = << >>
    /\ UNCHANGED << opts, disk, wbuf, faults, ioerr >>
    /\ UNCHANGED << codec, nbt, agg, chk, grid, est, val >>

NextTwice ==
    \/ Next
    \/ Reopen

\* The scan of one region file, and the scan of the file it leaves.
SpecTwice == Init /\ [][NextTwice]_vars

\* How the file stood when the scan under way opened it, and how it
\* stands now, from sector 2 on.
RecordBytesKept ==
    /\ DOMAIN File = DOMAIN disk0
    /\ \A s \in DOMAIN File : s >= 2 => File[s] = disk0[s]

\* The second scan of a file, with fix set, has returned its statistic, and
\* neither scan met an I/O error.
SecondScanDone ==
    pass.n = 2 /\ opts.fix /\ ioerr = {} /\ pc \in {"done", "closed"}

\* The second scan found the file repaired and left it alone.
FixedPoint ==
    /\ statistic.unused_space = 0
    /\ statistic.invalid_length = 0
    /\ Persisted = Table0
    /\ RecordBytesKept

\* C29 as the specification states it: a file that a scan with fix has
\* repaired is a fixed point: the scan of it with the same options reports
\* neither unused space nor an invalid length, and leaves the table and
\* every record as they are.
C29_RepairFixedPoint == SecondScanDone => FixedPoint

====
